---------------------------- MODULE Spec2Model ----------------------------
(***************************************************************************)
(* A model of the DPhyp join-order optimizer of                            *)
(* src/query/sql/src/planner/optimizer/hyper_dp/dphyp.rs (struct DPhpy).   *)
(*                                                                         *)
(* Relation subsets (Vec<IndexType>, kept sorted and duplicate free by the *)
(* RelationSetTree) are sets of relation indices; nodes[0] is Min(nodes)   *)
(* and nodes.len() is Cardinality(nodes).  Costs and cardinalities (f64)   *)
(* are naturals.  JoinNode, JoinRelation, QueryGraph and the cardinality   *)
(* estimator live in files that are not part of the sources at hand; they  *)
(* are modelled from the design document (sections 3, 4.2, 4.3, 6).        *)
(***************************************************************************)
EXTENDS Integers, Sequences, FiniteSets, TLC

(* ----------------------------- bounds --------------------------------- *)
\* Largest number of base relations of an input plan.
MaxRel == 4
\* Largest estimated row count of a base table scan.
MaxCard == 2
\* Divisor by which one equi-join condition reduces the estimated rows.
SelDiv == 2

(* ------------------------- program constants --------------------------- *)
RELATION_THRESHOLD == 10

(* ------------------------------ helpers -------------------------------- *)
Min(S) == CHOOSE x \in S : \A y \in S : x <= y

Max2(a, b) == IF a >= b THEN a ELSE b

RECURSIVE SortedSeq(_)
\* The ascending sequence of the elements of a finite set of naturals.
SortedSeq(S) == IF S = {} THEN <<>> ELSE <<Min(S)>> \o SortedSeq(S \ {Min(S)})

RECURSIVE Reverse(_)
Reverse(s) == IF s = <<>> THEN <<>> ELSE Reverse(Tail(s)) \o <<Head(s)>>

RECURSIVE Power(_, _)
Power(b, e) == IF e = 0 THEN 1 ELSE b * Power(b, e - 1)

Range(s) == {s[i] : i \in 1..Len(s)}

\* util::intersect: do the two relation sets share a relation
intersect(a, b) == a \cap b # {}

\* util::union: the canonical union of two relation sets
union(a, b) == a \cup b

(* ------------------------------ plans ---------------------------------- *)
(* An SExpr is a record [op, jt, table, card, eq, preds, having, ch]:      *)
(*   op     the RelOperator variant                                        *)
(*   jt     the join type of a Join                                        *)
(*   table  the table index of a Scan                                      *)
(*   card   the estimated row count of a Scan                              *)
(*   eq     the equi-join conditions of a Join, a sequence of pairs        *)
(*          <<left_condition, right_condition>> of scalar expressions      *)
(*   preds  the predicates of a Filter / non_equi_conditions of a Join     *)
(*   having is_having of a Filter                                          *)
(*   ch     the children                                                   *)
(* A ScalarExpr is a record [e |-> identity, t |-> the tables it uses].    *)
Expr(e, t) == [e |-> e, t |-> t]

Scan(t, c) ==
  [op |-> "Scan", jt |-> "", table |-> t, card |-> c, eq |-> <<>>, preds |-> <<>>,
   having |-> FALSE, ch |-> <<>>]

Join(jt, eq, preds, l, r) ==
  [op |-> "Join", jt |-> jt, table |-> 0, card |-> 0, eq |-> eq, preds |-> preds,
   having |-> FALSE, ch |-> <<l, r>>]

Unary(op, preds, c) ==
  [op |-> op, jt |-> "", table |-> 0, card |-> 0, eq |-> <<>>, preds |-> preds,
   having |-> FALSE, ch |-> <<c>>]

UnionAll(l, r) ==
  [op |-> "UnionAll", jt |-> "", table |-> 0, card |-> 0, eq |-> <<>>, preds |-> <<>>,
   having |-> FALSE, ch |-> <<l, r>>]

Leaf(op) ==
  [op |-> op, jt |-> "", table |-> 0, card |-> 0, eq |-> <<>>, preds |-> <<>>,
   having |-> FALSE, ch |-> <<>>]

\* SExpr::replace_children
replace_children(s, children) == [s EXCEPT !.ch = children]

\* The operators get_base_relations treats as subquery roots below a join.
BlockingOps == {"EvalScalar", "Aggregate", "Sort", "Limit", "ProjectSet", "Window"}

(* ------------------------- cardinality estimator ----------------------- *)
\* Estimated rows of joining the relation sets l and r on conds, given the
\* row counts of the base relations: the product of the base row counts,
\* divided by SelDiv for every condition applied, at least one row.
JoinCardinality(cards, l, r, conds) ==
  LET RECURSIVE Prod(_)
      Prod(S) == IF S = {} THEN 1 ELSE cards[Min(S)] * Prod(S \ {Min(S)})
  IN Max2(1, Prod(l \cup r) \div Power(SelDiv, Len(conds)))

RECURSIVE PlanTables(_)
\* The table indexes scanned below a plan node.
PlanTables(s) ==
  IF s.op = "Scan" THEN {s.table}
  ELSE UNION {PlanTables(s.ch[i]) : i \in 1..Len(s.ch)}

RECURSIVE PlanCardinality(_)
\* Estimated rows of a plan subtree (RelExpr::derive_cardinality).
PlanCardinality(s) ==
  CASE s.op = "Scan" -> s.card
    [] s.op = "Join" ->
         Max2(1, (PlanCardinality(s.ch[1]) * PlanCardinality(s.ch[2]))
                   \div Power(SelDiv, Len(s.eq)))
    [] s.op = "UnionAll" -> PlanCardinality(s.ch[1]) + PlanCardinality(s.ch[2])
    [] Len(s.ch) = 1 -> PlanCardinality(s.ch[1])
    [] OTHER -> 1

\* JoinRelation::cardinality of every registered relation, indexed from 0.
RelationCards(join_relations) ==
  [i \in 0..Len(join_relations) - 1 |-> PlanCardinality(join_relations[i + 1])]

\* JoinNode::cardinality: the memoized value, else the estimate of the join.
NodeCardinality(node, join_relations) ==
  IF node.cardinality # <<>> THEN node.cardinality[1]
  ELSE JoinCardinality(RelationCards(join_relations), node.children[1].leaves,
                       node.children[2].leaves, node.join_conditions)

(* ------------------------------ query graph ---------------------------- *)
(* The graph is the sequence of its edges [l, r, conds] in insertion order. *)
\* QueryGraph::create_edges: add the condition to the edge from l to r.
create_edges(qg, l, r, cond) ==
  IF \E k \in 1..Len(qg) : qg[k].l = l /\ qg[k].r = r
  THEN [k \in 1..Len(qg) |->
          IF qg[k].l = l /\ qg[k].r = r
          THEN [qg[k] EXCEPT !.conds = Append(@, cond)] ELSE qg[k]]
  ELSE Append(qg, [l |-> l, r |-> r, conds |-> <<cond>>])

\* QueryGraph::neighbors: ascending indices of the relations joined by an edge
\* to nodes and not forbidden.
neighbors(qg, nodes, forbidden_nodes) ==
  SortedSeq((UNION {qg[k].r : k \in {j \in 1..Len(qg) : qg[j].l \subseteq nodes}})
              \ forbidden_nodes)

RECURSIVE ConcatConds(_, _, _, _)
ConcatConds(qg, a, b, k) ==
  IF k > Len(qg) THEN <<>>
  ELSE (IF qg[k].l \subseteq a /\ qg[k].r \subseteq b THEN qg[k].conds ELSE <<>>)
         \o ConcatConds(qg, a, b, k + 1)

\* QueryGraph::is_connected: the join conditions on the edges from a to b.
is_connected(qg, a, b) == ConcatConds(qg, a, b, 1)

(* ------------------------------ DP table ------------------------------- *)
(* A JoinNode is a record [join_type, leaves, children, join_conditions,   *)
(* cost, cardinality]; cardinality is <<>> (None) or <<c>> (Some(c)).      *)
EmptyMap == [x \in {} |-> TRUE]

\* HashMap::insert
MapInsert(m, k, v) == [x \in DOMAIN m \cup {k} |-> IF x = k THEN v ELSE m[x]]

\* The single-relation plan solve puts into dp_table for relation idx.
LeafNode(idx, ce) ==
  [join_type |-> "Inner", leaves |-> {idx}, children |-> <<>>,
   join_conditions |-> <<>>, cost |-> 0, cardinality |-> <<ce>>]

\* One optimizer instance, DPhpy::new; panic records a failed unwrap, index
\* or unreachable!().
NewDPhpy ==
  [join_relations |-> <<>>, table_index_map |-> EmptyMap, dp_table |-> EmptyMap,
   query_graph |-> <<>>, filters |-> {}, panic |-> FALSE]

SwapConditions(conds) == [k \in 1..Len(conds) |-> <<conds[k][2], conds[k][1]>>]

\* RightFirst with the comparison turned around.
RightFirst_right_smaller(self, left, right) ==
  NodeCardinality(self.dp_table[right], self.join_relations)
    < NodeCardinality(self.dp_table[left], self.join_relations)

\* emit_csg_cmp, lines 467-470: does the right plan go first (the left
\* one has the smaller cardinality).
RightFirst(self, left, right) ==
  NodeCardinality(self.dp_table[left], self.join_relations)
    < NodeCardinality(self.dp_table[right], self.join_relations)

\* NewChildren with the left plan on both sides.
NewChildren_left_twice(self, left, right) ==
  <<self.dp_table[left], self.dp_table[left]>>

\* NewChildren with the right plan on both sides.
NewChildren_right_twice(self, left, right) ==
  <<self.dp_table[right], self.dp_table[right]>>

\* emit_csg_cmp, lines 482-486: the children of the candidate.
NewChildren(self, left, right) ==
  IF RightFirst(self, left, right)
  THEN <<self.dp_table[right], self.dp_table[left]>>
  ELSE <<self.dp_table[left], self.dp_table[right]>>

\* NewJoinNode with the test of join_conditions inverted.
NewJoinNode_inverted_test(self, left, right, join_conditions) ==
  IF join_conditions = <<>>
  THEN [join_type |-> "Inner", leaves |-> union(left, right),
        children |-> NewChildren(self, left, right),
        join_conditions |-> join_conditions, cost |-> 0, cardinality |-> <<>>]
  ELSE [join_type |-> "Cross", leaves |-> union(left, right),
        children |-> NewChildren(self, left, right), join_conditions |-> <<>>,
        cost |-> NodeCardinality(self.dp_table[left], self.join_relations)
                   * NodeCardinality(self.dp_table[right], self.join_relations),
        cardinality |-> <<>>]

\* emit_csg_cmp, lines 478-506: the candidate before its cost is set.
NewJoinNode(self, left, right, join_conditions) ==
  IF join_conditions # <<>>
  THEN [join_type |-> "Inner", leaves |-> union(left, right),
        children |-> NewChildren(self, left, right),
        join_conditions |-> join_conditions, cost |-> 0, cardinality |-> <<>>]
  ELSE [join_type |-> "Cross", leaves |-> union(left, right),
        children |-> NewChildren(self, left, right), join_conditions |-> <<>>,
        cost |-> NodeCardinality(self.dp_table[left], self.join_relations)
                   * NodeCardinality(self.dp_table[right], self.join_relations),
        cardinality |-> <<>>]

\* SetInnerCost that leaves out the costs of the children.
SetInnerCost_own_only(join_node, c) ==
  IF join_node.join_type = "Inner"
  THEN [join_node EXCEPT !.cardinality = <<c>>, !.cost = c]
  ELSE join_node

\* emit_csg_cmp, lines 507-512: c is the cardinality of join_node; an inner
\* join costs it plus the costs of its children.
SetInnerCost(join_node, c) ==
  IF join_node.join_type = "Inner"
  THEN [join_node EXCEPT !.cardinality = <<c>>,
                         !.cost = c + join_node.children[1].cost
                                    + join_node.children[2].cost]
  ELSE join_node

\* The node with its cost set.
Costed(join_node, join_relations) ==
  SetInnerCost(join_node,
               IF join_node.join_type = "Inner"
               THEN NodeCardinality(join_node, join_relations) ELSE 0)

\* Candidate that leaves the conditions as they are when the plans swap.
Candidate_conditions_as_given(self, left, right, conds) ==
  Costed(NewJoinNode(self, left, right, conds), self.join_relations)

\* The candidate emit_csg_cmp builds for left \cup right (lines 466-512).
Candidate(self, left, right, conds) ==
  Costed(NewJoinNode(self, left, right,
                     IF RightFirst(self, left, right)
                     THEN SwapConditions(conds) ELSE conds),
         self.join_relations)

\* emit_csg_cmp that never replaces an entry dp_table already holds.
emit_csg_cmp_keep_first(self, left, right, conds) ==
  IF left \notin DOMAIN self.dp_table \/ right \notin DOMAIN self.dp_table
  THEN [self EXCEPT !.panic = TRUE]
  ELSE IF union(left, right) \notin DOMAIN self.dp_table
       THEN [self EXCEPT !.dp_table =
               MapInsert(@, union(left, right), Candidate(self, left, right, conds))]
       ELSE self

\* emit_csg_cmp that also replaces an entry by a candidate of the same cost.
emit_csg_cmp_replace_ties(self, left, right, conds) ==
  IF left \notin DOMAIN self.dp_table \/ right \notin DOMAIN self.dp_table
  THEN [self EXCEPT !.panic = TRUE]
  ELSE IF union(left, right) \notin DOMAIN self.dp_table
          \/ self.dp_table[union(left, right)].cost
               >= Candidate(self, left, right, conds).cost
       THEN [self EXCEPT !.dp_table =
               MapInsert(@, union(left, right), Candidate(self, left, right, conds))]
       ELSE self

\* DPhpy::emit_csg_cmp
emit_csg_cmp(self, left, right, conds) ==
  IF left \notin DOMAIN self.dp_table \/ right \notin DOMAIN self.dp_table
  THEN [self EXCEPT !.panic = TRUE]
  ELSE LET parent_set == union(left, right)
           join_node == Candidate(self, left, right, conds)
       IN IF parent_set \notin DOMAIN self.dp_table
             \/ self.dp_table[parent_set].cost > join_node.cost
          THEN [self EXCEPT !.dp_table = MapInsert(@, parent_set, join_node)]
          ELSE self

RECURSIVE enumerate_cmp_rec(_, _, _, _)
RECURSIVE CmpEmitLoop(_, _, _, _, _)
RECURSIVE CmpRecLoop(_, _, _, _, _, _)
\* enumerate_cmp_rec, first loop: emit left with every enlarged complement.
CmpEmitLoop(self, left, right, neighbor_set, i) ==
  IF i > Len(neighbor_set) \/ self.panic THEN self
  ELSE LET merged_relation_set == union(right, {neighbor_set[i]})
           join_conditions == is_connected(self.query_graph, left, merged_relation_set)
       IN CmpEmitLoop(
            IF Cardinality(merged_relation_set) > Cardinality(right)
               /\ merged_relation_set \in DOMAIN self.dp_table
               /\ join_conditions # <<>>
            THEN emit_csg_cmp(self, left, merged_relation_set, join_conditions)
            ELSE self,
            left, right, neighbor_set, i + 1)

\* enumerate_cmp_rec, second loop: recurse with the growing forbidden set.
CmpRecLoop(self, left, right, neighbor_set, new_forbidden_nodes, i) ==
  IF i > Len(neighbor_set) \/ self.panic THEN self
  ELSE LET forb == new_forbidden_nodes \cup {neighbor_set[i]}
       IN CmpRecLoop(
            enumerate_cmp_rec(self, left, union(right, {neighbor_set[i]}), forb),
            left, right, neighbor_set, forb, i + 1)

\* DPhpy::enumerate_cmp_rec
enumerate_cmp_rec(self, left, right, forbidden_nodes) ==
  LET neighbor_set == neighbors(self.query_graph, right, forbidden_nodes)
  IN IF neighbor_set = <<>> THEN self
     ELSE CmpRecLoop(CmpEmitLoop(self, left, right, neighbor_set, 1),
                     left, right, neighbor_set, forbidden_nodes, 1)

\* CsgForbidden that forbids everything up to the highest relation of nodes.
CsgForbidden_below_last(nodes) ==
  (0..(CHOOSE x \in nodes : \A y \in nodes : y <= x)) \cup nodes

\* The forbidden set emit_csg builds: everything below nodes[0], and nodes.
CsgForbidden(nodes) == (0..(Min(nodes) - 1)) \cup nodes

\* emit_csg, the body of its loop before the call of enumerate_cmp_rec:
\* emit nodes with the neighbor if a condition connects them.
EmitCsgNeighbor(self, nodes, neighbor_relations) ==
  LET join_conditions == is_connected(self.query_graph, nodes, neighbor_relations)
  IN IF join_conditions # <<>>
     THEN emit_csg_cmp(self, nodes, neighbor_relations, join_conditions)
     ELSE self

\* A call made only if the instance has not panicked.
CmpRecUnlessPanic(self, left, right, forbidden_nodes) ==
  IF self.panic THEN self ELSE enumerate_cmp_rec(self, left, right, forbidden_nodes)

RECURSIVE EmitCsgLoop(_, _, _, _, _)
\* emit_csg, the loop over the neighbors in descending order.
EmitCsgLoop(self, nodes, forbidden_nodes, nbrs, i) ==
  IF i > Len(nbrs) \/ self.panic THEN self
  ELSE EmitCsgLoop(
         CmpRecUnlessPanic(EmitCsgNeighbor(self, nodes, {nbrs[i]}),
                           nodes, {nbrs[i]}, forbidden_nodes),
         nodes, forbidden_nodes, nbrs, i + 1)

\* DPhpy::emit_csg
emit_csg(self, nodes) ==
  IF Cardinality(nodes) = Len(self.join_relations) THEN self
  ELSE LET nbrs == neighbors(self.query_graph, nodes, CsgForbidden(nodes))
       IN IF nbrs = <<>> THEN self
          ELSE EmitCsgLoop(self, nodes, CsgForbidden(nodes), Reverse(nbrs), 1)

\* CsgNeighbors that cuts the neighbors only above the threshold.
CsgNeighbors_above_threshold(self, nodes, forbidden_nodes) ==
  LET nbrs == neighbors(self.query_graph, nodes, forbidden_nodes)
  IN IF Len(self.join_relations) > RELATION_THRESHOLD
     THEN SubSeq(nbrs, 1, IF Len(nbrs) < Cardinality(nodes) THEN Len(nbrs)
                          ELSE Cardinality(nodes))
     ELSE nbrs

\* The neighbors enumerate_csg_rec explores: all of them below the
\* threshold, the first nodes.len() at or above it.
CsgNeighbors(self, nodes, forbidden_nodes) ==
  LET nbrs == neighbors(self.query_graph, nodes, forbidden_nodes)
  IN IF Len(self.join_relations) >= RELATION_THRESHOLD
     THEN SubSeq(nbrs, 1, IF Len(nbrs) < Cardinality(nodes) THEN Len(nbrs)
                          ELSE Cardinality(nodes))
     ELSE nbrs

\* The forbidden set of the recursive call for one more neighbor: the
\* caller's set below the threshold, the accumulated one at or above it.
CsgNewForbidden(self, forbidden_nodes, new_forbidden_nodes, neighbor) ==
  (IF Len(self.join_relations) < RELATION_THRESHOLD
   THEN forbidden_nodes ELSE new_forbidden_nodes) \cup {neighbor}

RECURSIVE enumerate_csg_rec(_, _, _)
RECURSIVE CsgEmitLoop(_, _, _, _)
RECURSIVE CsgRecLoop(_, _, _, _, _, _)
\* enumerate_csg_rec, first loop: emit every enlarged subgraph already known.
CsgEmitLoop(self, nodes, nbrs, i) ==
  IF i > Len(nbrs) \/ self.panic THEN self
  ELSE LET merged_relation_set == union(nodes, {nbrs[i]})
       IN CsgEmitLoop(
            IF merged_relation_set \in DOMAIN self.dp_table
               /\ Cardinality(merged_relation_set) > Cardinality(nodes)
            THEN emit_csg(self, merged_relation_set) ELSE self,
            nodes, nbrs, i + 1)

\* enumerate_csg_rec, second loop: recurse into every enlarged subgraph.
CsgRecLoop(self, nodes, nbrs, forbidden_nodes, new_forbidden_nodes, i) ==
  IF i > Len(nbrs) \/ self.panic THEN self
  ELSE LET forb == CsgNewForbidden(self, forbidden_nodes, new_forbidden_nodes, nbrs[i])
       IN CsgRecLoop(
            enumerate_csg_rec(self, union(nodes, {nbrs[i]}), forb),
            nodes, nbrs, forbidden_nodes, forb, i + 1)

\* DPhpy::enumerate_csg_rec
enumerate_csg_rec(self, nodes, forbidden_nodes) ==
  LET nbrs == CsgNeighbors(self, nodes, forbidden_nodes)
  IN IF nbrs = <<>> THEN self
     ELSE CsgRecLoop(CsgEmitLoop(self, nodes, nbrs, 1),
                     nodes, nbrs, forbidden_nodes, forbidden_nodes, 1)

\* InitialDpTable without the plan of the first relation.
InitialDpTable_skip_first(join_relations) ==
  [s \in {{i} : i \in 1..Len(join_relations) - 1} |->
     LeafNode(Min(s), PlanCardinality(join_relations[Min(s) + 1]))]

\* solve, first loop: the dp_table holding the plan of every single relation.
InitialDpTable(join_relations) ==
  [s \in {{i} : i \in 0..Len(join_relations) - 1} |->
     LeafNode(Min(s), PlanCardinality(join_relations[Min(s) + 1]))]

\* A call made only if the instance has not panicked.
CsgRecUnlessPanic(self, nodes, forbidden_nodes) ==
  IF self.panic THEN self ELSE enumerate_csg_rec(self, nodes, forbidden_nodes)

RECURSIVE SolveLoop(_, _)
\* solve, second loop: every relation as enumeration start, descending.
SolveLoop(self, idx) ==
  IF idx < 0 \/ self.panic THEN self
  ELSE SolveLoop(CsgRecUnlessPanic(emit_csg(self, {idx}), {idx}, 0..(idx - 1)), idx - 1)

\* DPhpy::solve
solve(self) ==
  SolveLoop([self EXCEPT !.dp_table = InitialDpTable(self.join_relations)],
            Len(self.join_relations) - 1)

(* -------------------------- relation extraction ----------------------- *)
\* plans::Filter, the element type of DPhpy::filters
Filter(predicates, is_having) == [predicates |-> predicates, is_having |-> is_having]

RECURSIVE FiltersOf(_)
\* Every Filter operator of a plan subtree, as check_filter visits them.
FiltersOf(s) ==
  (IF s.op = "Filter" THEN {Filter(s.preds, s.having)} ELSE {})
    \cup UNION {FiltersOf(s.ch[i]) : i \in 1..Len(s.ch)}

\* DPhpy::check_filter: drop from filters every Filter found in expr.
check_filter(self, expr) == [self EXCEPT !.filters = @ \ FiltersOf(expr)]

\* Map every table index in tables to relation_idx (HashMap::insert per key).
MapTables(m, tables, relation_idx) ==
  [t \in DOMAIN m \cup tables |-> IF t \in tables THEN relation_idx ELSE m[t]]

\* The result of get_base_relations and optimize: the instance, the collected
\* join conditions, the returned plan and the success flag.
Res(self, jc, expr, optimized) ==
  [self |-> self, jc |-> jc, expr |-> expr, optimized |-> optimized]

RECURSIVE BuildEdges_skip_empty_side(_, _, _)
\* BuildEdges that passes over a condition with a side without relations.
BuildEdges_skip_empty_side(self, jc, k) ==
  IF k > Len(jc) THEN [self |-> self, ok |-> TRUE]
  ELSE IF ~((jc[k][1].t \cup jc[k][2].t) \subseteq DOMAIN self.table_index_map)
       THEN [self |-> [self EXCEPT !.panic = TRUE], ok |-> FALSE]
       ELSE BuildEdges_skip_empty_side(
              IF jc[k][1].t # {} /\ jc[k][2].t # {}
                 /\ ~intersect({self.table_index_map[t] : t \in jc[k][1].t},
                               {self.table_index_map[t] : t \in jc[k][2].t})
              THEN [self EXCEPT !.query_graph =
                      create_edges(
                        create_edges(@, {self.table_index_map[t] : t \in jc[k][1].t},
                                     {self.table_index_map[t] : t \in jc[k][2].t},
                                     <<jc[k][1], jc[k][2]>>),
                        {self.table_index_map[t] : t \in jc[k][2].t},
                        {self.table_index_map[t] : t \in jc[k][1].t},
                        <<jc[k][2], jc[k][1]>>)]
              ELSE self,
              jc, k + 1)

\* Build the edges of query_graph from the collected conditions (optimize,
\* "Second"); ok is FALSE when a condition has a side without relations.
RECURSIVE BuildEdges(_, _, _)
BuildEdges(self, jc, k) ==
  IF k > Len(jc) THEN [self |-> self, ok |-> TRUE]
  ELSE LET left_condition == jc[k][1]
           right_condition == jc[k][2]
       IN IF ~((left_condition.t \cup right_condition.t) \subseteq DOMAIN self.table_index_map)
          THEN [self |-> [self EXCEPT !.panic = TRUE], ok |-> FALSE]
          ELSE LET left_relation_set == {self.table_index_map[t] : t \in left_condition.t}
                   right_relation_set == {self.table_index_map[t] : t \in right_condition.t}
               IN IF left_relation_set # {} /\ right_relation_set # {}
                  THEN BuildEdges(
                         IF ~intersect(left_relation_set, right_relation_set)
                         THEN [self EXCEPT !.query_graph =
                                 create_edges(
                                   create_edges(@, left_relation_set, right_relation_set,
                                                <<left_condition, right_condition>>),
                                   right_relation_set, left_relation_set,
                                   <<right_condition, left_condition>>)]
                         ELSE self,
                         jc, k + 1)
                  ELSE [self |-> self, ok |-> FALSE]

RECURSIVE NodeSExpr(_, _)
\* JoinNode::s_expr: the plan of a join node; a leaf is its relation's plan.
NodeSExpr(node, join_relations) ==
  IF node.children = <<>> THEN join_relations[Min(node.leaves) + 1]
  ELSE Join(node.join_type, node.join_conditions, <<>>,
            NodeSExpr(node.children[1], join_relations),
            NodeSExpr(node.children[2], join_relations))

RECURSIVE SetToSeq(_)
\* The elements of a set in the order an iteration over it meets them.
SetToSeq(S) ==
  IF S = {} THEN <<>>
  ELSE LET x == CHOOSE y \in S : TRUE IN <<x>> \o SetToSeq(S \ {x})

RECURSIVE Flatten(_)
Flatten(ss) == IF ss = <<>> THEN <<>> ELSE Head(ss) \o Flatten(Tail(ss))

\* The predicates of every filter of the Filter Set, in one list.
AllPredicates(filters) ==
  LET fs == SetToSeq(filters) IN Flatten([k \in 1..Len(fs) |-> fs[k].predicates])

\* DPhpy::push_down_filter: the push-down rule is an external rule that
\* moves predicates of the filter into the join below it; the model keeps
\* every predicate in the filter.
push_down_filter(s) == s

RECURSIVE replace_join_expr(_, _, _)
\* DPhpy::replace_join_expr: put join_expr in place of the first Join and
\* the Filter Set above it.
replace_join_expr(self, join_expr, s) ==
  IF s.op = "Join"
  THEN LET f == push_down_filter(Unary("Filter", AllPredicates(self.filters), join_expr))
       IN IF f.op = "Filter" /\ f.preds = <<>> THEN f.ch[1] ELSE f
  ELSE [s EXCEPT !.ch = <<replace_join_expr(self, join_expr, s.ch[1])>>]

\* join_reorder that rebuilds the plan from the left child of the final plan.
join_reorder_left_child(self, final_plan, s) ==
  replace_join_expr(self, NodeSExpr(final_plan.children[1], self.join_relations), s)

\* DPhpy::join_reorder
join_reorder(self, final_plan, s) ==
  replace_join_expr(self, NodeSExpr(final_plan, self.join_relations), s)

\* The relation set of all registered relations.
AllRelations(self) == 0..(Len(self.join_relations) - 1)

\* Finish that reports success also when the full set has no plan.
Finish_always_optimized(self, s) ==
  IF self.panic THEN Res(self, <<>>, s, FALSE)
  ELSE IF AllRelations(self) \in DOMAIN self.dp_table
       THEN Res(self, <<>>, join_reorder(self, self.dp_table[AllRelations(self)], s), TRUE)
       ELSE Res(self, <<>>, s, TRUE)

\* optimize after solve: the reordered plan if the full set has a plan.
Finish(self, s) ==
  IF self.panic THEN Res(self, <<>>, s, FALSE)
  ELSE IF AllRelations(self) \in DOMAIN self.dp_table
       THEN Res(self, <<>>, join_reorder(self, self.dp_table[AllRelations(self)], s), TRUE)
       ELSE Res(self, <<>>, s, FALSE)

\* Unreachable that hands the node back as an optimizable plan.
Unreachable_returns_plan(self, jc, s) == Res(self, jc, s, TRUE)

\* unreachable!(): the traversal panics, nothing is returned for the node.
Unreachable(self, jc, s) == Res([self EXCEPT !.panic = TRUE], jc, s, FALSE)

RECURSIVE get_base_relations(_, _, _, _, _, _)
RECURSIVE new_children(_, _)
RECURSIVE optimize(_, _)

\* Register new_s_expr as the next relation (join_relations.push).
PushRelation(self, new_s_expr) ==
  [self EXCEPT !.join_relations = Append(@, new_s_expr)]

\* MergeChildren that maps the tables of the right worker one index further.
MergeChildren_two_indices(self, s, left_res, right_res) ==
  IF left_res.self.panic \/ right_res.self.panic
  THEN Res([self EXCEPT !.panic = TRUE], <<>>, s, FALSE)
  ELSE Res([self EXCEPT !.table_index_map =
              MapTables(MapTables(@, DOMAIN left_res.self.table_index_map,
                                  Len(self.join_relations)),
                        DOMAIN right_res.self.table_index_map,
                        Len(self.join_relations) + 1)],
           <<>>, replace_children(s, <<left_res.expr, right_res.expr>>), TRUE)

\* new_children, lines 86-100: the two workers have returned left_res and
\* right_res; map their tables to the relation registered next.
MergeChildren(self, s, left_res, right_res) ==
  IF left_res.self.panic \/ right_res.self.panic
  THEN Res([self EXCEPT !.panic = TRUE], <<>>, s, FALSE)
  ELSE Res([self EXCEPT !.table_index_map =
              MapTables(@, DOMAIN left_res.self.table_index_map
                             \cup DOMAIN right_res.self.table_index_map,
                        Len(self.join_relations))],
           <<>>, replace_children(s, <<left_res.expr, right_res.expr>>), TRUE)

\* DPhpy::new_children: optimize both children with instances of their own.
new_children(self, s) ==
  MergeChildren(self, s, optimize(NewDPhpy, s.ch[1]), optimize(NewDPhpy, s.ch[2]))

\* get_base_relations, lines 121-128: r is what the instance of the
\* subquery returned; a success is registered as one relation.
RegisterSubquery(self, jc, s, r) ==
  IF r.self.panic THEN Res([self EXCEPT !.panic = TRUE], jc, s, FALSE)
  ELSE IF r.optimized
  THEN Res(PushRelation(
             [self EXCEPT !.table_index_map =
                MapTables(@, DOMAIN r.self.table_index_map, Len(self.join_relations))],
             r.expr),
           jc, r.expr, TRUE)
  ELSE Res(self, jc, r.expr, FALSE)

\* get_base_relations, lines 191-193 and 248-250: r is what new_children
\* returned; its plan is registered as one relation.
RegisterOpaque(jc, s, r) ==
  IF r.self.panic THEN Res(r.self, jc, s, FALSE)
  ELSE Res(PushRelation(r.self, r.expr), jc, r.expr, r.optimized)

\* DPhpy::get_base_relations; join_relation is <<>> (None) or <<relation>>.
get_base_relations(self, jc, s, join_child, join_relation, is_subquery) ==
  IF self.panic THEN Res(self, jc, s, FALSE)
  ELSE IF s.op = "Pattern" THEN Res(self, jc, s, TRUE)
  ELSE IF is_subquery THEN RegisterSubquery(self, jc, s, optimize(NewDPhpy, s))
  ELSE CASE s.op = "Scan" ->
         LET s1 == IF join_relation # <<>> THEN check_filter(self, join_relation[1])
                   ELSE self
             relation == IF join_relation # <<>> THEN join_relation[1] ELSE s
         IN Res(PushRelation(
                  [s1 EXCEPT !.table_index_map =
                     MapTables(@, {s.table}, Len(self.join_relations))],
                  relation),
                jc, s, TRUE)
    [] s.op = "Join" ->
         LET is_inner_join == s.jt \in {"Inner", "Cross"}
             left_is_subquery == s.ch[1].op \in BlockingOps
             right_is_subquery == s.ch[2].op \in BlockingOps
             jc1 == jc \o s.eq
             s1 == IF s.preds # <<>>
                   THEN [self EXCEPT !.filters = @ \cup {Filter(s.preds, FALSE)}]
                   ELSE self
         IN IF ~is_inner_join \/ (left_is_subquery /\ right_is_subquery)
            THEN RegisterOpaque(jc1, s, new_children(s1, s))
            ELSE LET left_res ==
                       get_base_relations(s1, jc1, s.ch[1], TRUE, <<>>, left_is_subquery)
                     right_res ==
                       get_base_relations(left_res.self, left_res.jc, s.ch[2], TRUE, <<>>,
                                          right_is_subquery)
                 IN Res(right_res.self, right_res.jc,
                        replace_children(s, <<left_res.expr, right_res.expr>>),
                        left_res.optimized /\ right_res.optimized)
    [] s.op \in BlockingOps \cup {"Filter"} ->
         IF join_child
         THEN LET s1 == IF s.op = "Filter"
                        THEN [self EXCEPT !.filters = @ \cup {Filter(s.preds, s.having)}]
                        ELSE self
                  r == get_base_relations(s1, jc, s.ch[1], TRUE, <<s>>, FALSE)
              IN Res(r.self, r.jc, replace_children(s, <<r.expr>>), r.optimized)
         ELSE LET r == get_base_relations(self, jc, s.ch[1], FALSE, <<>>, FALSE)
              IN Res(r.self, r.jc, replace_children(s, <<r.expr>>), r.optimized)
    [] s.op = "UnionAll" -> RegisterOpaque(jc, s, new_children(self, s))
    [] s.op \in {"Exchange", "RuntimeFilterSource"} -> Unreachable(self, jc, s)
    [] OTHER -> Res(self, jc, s, TRUE)

\* Extracted without the early return on a single relation.
Extracted_ignore_single(r) ==
  [res |-> r, done |-> r.self.panic \/ ~r.optimized \/ r.jc = <<>>]

\* Extracted without the early return on an empty list of conditions.
Extracted_ignore_conditions(r) ==
  [res |-> r,
   done |-> r.self.panic \/ ~r.optimized \/ Len(r.self.join_relations) = 1]

\* optimize, lines 270-275: r is what get_base_relations returned; done
\* tells that optimize returns here, without building the query graph.
Extracted(r) ==
  [res |-> r,
   done |-> r.self.panic \/ ~r.optimized
            \/ Len(r.self.join_relations) = 1 \/ r.jc = <<>>]

\* optimize, lines 267-275: extraction and the two early returns.
Extract(self, s) == Extracted(get_base_relations(self, <<>>, s, FALSE, <<>>, FALSE))

\* optimize, lines 313-336: g is the outcome of building the edges.
AfterEdges(g, s) ==
  IF ~g.ok THEN Res(g.self, <<>>, s, FALSE) ELSE Finish(solve(g.self), s)

\* optimize, lines 270-336: x is the outcome of the extraction.
AfterExtract(x) ==
  IF x.done THEN Res(x.res.self, <<>>, x.res.expr, x.res.optimized /\ ~x.res.self.panic)
  ELSE AfterEdges(BuildEdges(x.res.self, x.res.jc, 1), x.res.expr)

\* DPhpy::optimize
optimize(self, s) == AfterExtract(Extract(self, s))

(* ------------------------------ input plans ---------------------------- *)
\* The equi-join condition between tables i < j; its two expressions are
\* written left to right or right to left, depending on the tables.
Cond(i, j) ==
  IF (i + j) % 2 = 1 THEN <<Expr(<<i, j>>, {i}), Expr(<<j, i>>, {j})>>
  ELSE <<Expr(<<j, i>>, {j}), Expr(<<i, j>>, {i})>>

\* A condition whose left side uses no table at all (a constant).
ConstCond(j) == <<Expr(<<>>, {}), Expr(<<j, j>>, {j})>>

\* A condition whose two sides use the same table.
SelfCond(j) == <<Expr(<<j, j, 1>>, {j}), Expr(<<j, j, 2>>, {j})>>

\* The conditions of the edges of E that end in slot k, lowest slot first.
CondsAt(E, k) ==
  LET low == SortedSeq({i \in 0..(k - 1) : <<i, k>> \in E})
  IN [x \in 1..Len(low) |-> Cond(low[x], k)]

\* An inner join of l and r on conds, a cross join when there is none.
JoinOn(conds, l, r) == Join(IF conds = <<>> THEN "Cross" ELSE "Inner", conds, <<>>, l, r)

RECURSIVE LeftDeep(_, _, _, _)
\* The left-deep join of the plans slots[1..k+1]; every condition of E sits
\* on the lowest join that has both its tables below it; extra is added
\* to the conditions of the topmost join, in front or at the end.
LeftDeep(slots, E, extra, k) ==
  IF k = 0 THEN slots[1]
  ELSE LET conds == CondsAt(E, k)
           all == IF k = Len(slots) - 1
                  THEN (IF extra.front THEN extra.conds \o conds ELSE conds \o extra.conds)
                  ELSE conds
       IN JoinOn(all, LeftDeep(slots, E, extra, k - 1), slots[k + 1])

NoExtra == [front |-> FALSE, conds |-> <<>>]

\* All graphs over the slots 0..n-1: sets of edges <<i, j>> with i < j.
Graphs(n) == SUBSET {<<i, j>> \in (0..(n - 1)) \X (0..(n - 1)) : i < j}

CardVals == 1..MaxCard

\* The plans of slot 0 that are not a bare scan of table 0: a scan under a
\* filter, subqueries under a blocking operator (joining table 0 with a
\* second table, with or without a condition), an outer join and a union.
SecondTable == MaxRel
Slot0Variants(c0, c1) ==
  { Unary("Filter", <<Expr(<<0>>, {0})>>, Scan(0, c0)),
    Unary("Aggregate", <<>>,
          JoinOn(<<Cond(0, SecondTable)>>, Scan(0, c0), Scan(SecondTable, c1))),
    Unary("Aggregate", <<>>,
          JoinOn(<<ConstCond(0)>>, Scan(0, c0), Scan(SecondTable, c1))),
    Join("Left", <<Cond(0, SecondTable)>>, <<>>,
         Unary("Sort", <<>>, JoinOn(<<Cond(0, SecondTable)>>, Scan(0, c0), Scan(SecondTable, c1))),
         Scan(SecondTable + 1, c1)),
    Join("Left", <<ConstCond(0)>>, <<>>, Scan(0, c0), Scan(SecondTable, c1)),
    UnionAll(Scan(0, c0), Scan(SecondTable, c1)) }

\* Plans for the right side of a topmost cross join: the operators that
\* must not reach the optimizer, bare or as an operand of a union or of an
\* outer join, the leaves that register no relation, and a union of two
\* scans.
LastVariants(c) ==
  { Leaf("Pattern"), Leaf("Exchange"), Leaf("RuntimeFilterSource"),
    Leaf("DummyTableScan"), Leaf("CteScan"), Leaf("MaterializedCte"),
    UnionAll(Scan(SecondTable, c), Leaf("Exchange")),
    UnionAll(Leaf("RuntimeFilterSource"), Scan(SecondTable, c)),
    Join("Left", <<>>, <<>>, Scan(SecondTable, c), Unary("Sort", <<>>, Leaf("Exchange"))),
    UnionAll(Scan(SecondTable, c), Scan(SecondTable + 1, c)) }

\* The conditions added to the topmost join of some input plans.
Extras(n) ==
  { [front |-> f, conds |-> <<c>>] :
      f \in BOOLEAN, c \in {ConstCond(n - 1), SelfCond(n - 1)} }

ScanSlots(n, cards) == [k \in 1..n |-> Scan(k - 1, cards[k - 1])]

\* The k-th predicate over table t that is not an equi-join condition.
Pred(t, k) == Expr(<<t, k, 0, 0>>, {t})

\* Plans with non-equi predicates on joins and with filters below joins:
\* an outer join with a predicate of its own below an inner join; an inner
\* join with a predicate that a filter above one of its scans repeats, or
\* does not repeat; a scan below two filters, and below a filter and a
\* blocking operator.
ResidualPlans(c0, c1) ==
  { JoinOn(<<Cond(0, 2)>>,
           Join("Left", <<Cond(0, 1)>>, <<Pred(1, 1)>>, Scan(0, c0), Scan(1, c1)),
           Scan(2, c1)),
    Join("Inner", <<Cond(0, 1)>>, <<Pred(0, 1)>>,
         Unary("Filter", <<Pred(0, 1)>>, Scan(0, c0)), Scan(1, c1)),
    Join("Inner", <<Cond(0, 1)>>, <<Pred(1, 1)>>,
         Unary("Filter", <<Pred(0, 1)>>, Scan(0, c0)), Scan(1, c1)),
    JoinOn(<<Cond(0, 1)>>,
           Unary("Filter", <<Pred(0, 1)>>, Unary("Filter", <<Pred(0, 2)>>, Scan(0, c0))),
           Scan(1, c1)),
    JoinOn(<<Cond(0, 1)>>,
           Unary("Filter", <<Pred(0, 1)>>, Unary("Limit", <<>>, Scan(0, c0))),
           Scan(1, c1)) }

\* A union whose left child is a chain of three scans: one relation of the
\* outermost instance, three relations of the worker that optimizes it.
NestedPlans ==
  { UnionAll(LeftDeep(ScanSlots(3, cards), {<<0, 1>>, <<1, 2>>}, NoExtra, 2), Scan(3, 1)) :
      cards \in [0..2 -> CardVals] }

\* The input plans: left-deep joins of n scans over every graph and every
\* assignment of row counts; with fewer scans, the same with slot 0
\* replaced by one of its variants, with one more condition on top, or
\* cross joined with one of the last variants; the last variants alone;
\* the nested plans; and the plans with residual predicates.
InputPlans ==
  UNION { UNION { { LeftDeep(ScanSlots(n, cards), E, NoExtra, n - 1) : E \in Graphs(n) }
                  : cards \in [0..(n - 1) -> CardVals] } : n \in 1..MaxRel }
  \cup
  UNION { UNION { UNION { { LeftDeep([ScanSlots(n, cards) EXCEPT ![1] = v], E, NoExtra, n - 1)
                            : v \in Slot0Variants(cards[0], c1) }
                          : E \in Graphs(n) }
                  : cards \in [0..(n - 1) -> CardVals], c1 \in CardVals } : n \in 1..(MaxRel - 1) }
  \cup
  UNION { UNION { { LeftDeep(ScanSlots(n, cards), E, x, n - 1) : E \in Graphs(n), x \in Extras(n) }
                  : cards \in [0..(n - 1) -> CardVals] } : n \in 2..(MaxRel - 1) }
  \cup
  UNION { UNION { { JoinOn(<<>>, LeftDeep(ScanSlots(n, cards), E, NoExtra, n - 1), v)
                    : E \in Graphs(n), v \in LastVariants(cards[0]) }
                  : cards \in [0..(n - 1) -> CardVals] } : n \in 1..(MaxRel - 2) }
  \cup
  UNION { LastVariants(c) : c \in CardVals }
  \cup
  NestedPlans
  \cup
  UNION { ResidualPlans(c0, c1) : c0 \in CardVals, c1 \in CardVals }

(* ---------------------------- state machine ---------------------------- *)
(* One call of optimize on the outermost instance.  Nested instances (for  *)
(* subqueries and for the children of opaque joins and unions) run to      *)
(* completion inside the extraction step.  solve is followed call by call: *)
(* stack holds the frames of solve, emit_csg, enumerate_csg_rec and        *)
(* enumerate_cmp_rec that have not returned, the innermost last.           *)
VARIABLES
  input,        \* the plan handed to optimize
  pc,           \* where optimize stands
  dphyp,        \* the fields of the DPhpy instance
  join_conditions, \* the local join_conditions of optimize
  s_expr,       \* the local s_expr of optimize; the returned plan at the end
  optimized,    \* the flag optimize returns
  stack,        \* the call stack of solve
  csg_calls,    \* history: the argument of every call of emit_csg so far
  cmp_calls,    \* history: <<left, right>> of every call of emit_csg_cmp so far
  nc_pc,        \* new_children: where the calling thread stands
  nc_before,    \* new_children: the instance as it was at the call
  nc_self,      \* new_children: the instance of the calling thread (self)
  nc_s_expr,    \* new_children: its argument s_expr
  left_res,     \* new_children: the join handle of the left worker
  right_res,    \* new_children: the join handle of the right worker
  nc_ret        \* new_children: what it returned, <<>> before it returns

\* The variables of one threaded call of new_children.
threads == <<nc_pc, nc_before, nc_self, nc_s_expr, left_res, right_res, nc_ret>>

vars == <<input, pc, dphyp, join_conditions, s_expr, optimized, stack, csg_calls, cmp_calls,
          nc_pc, nc_before, nc_self, nc_s_expr, left_res, right_res, nc_ret>>

\* A join handle: not_spawned, running, finished (value is what the worker's
\* optimize returned, a result or an error) or panicked.
JoinHandle(status, value) == [status |-> status, value |-> value]

NotSpawned == JoinHandle("not_spawned", <<>>)

Frame(fn, left, nodes, forb, nbrs) ==
  [fn |-> fn, left |-> left, nodes |-> nodes, forb |-> forb, nforb |-> forb,
   nbrs |-> nbrs, i |-> 1, phase |-> "emit"]

\* A call of emit_csg(nodes): no frame when it returns before its loop.
CallEmitCsg(self, nodes) ==
  IF Cardinality(nodes) = Len(self.join_relations) THEN <<>>
  ELSE LET nbrs == neighbors(self.query_graph, nodes, CsgForbidden(nodes))
       IN IF nbrs = <<>> THEN <<>>
          ELSE <<Frame("emit_csg", {}, nodes, CsgForbidden(nodes), Reverse(nbrs))>>

\* A call of enumerate_csg_rec(nodes, forbidden_nodes).
CallEnumerateCsgRec(self, nodes, forbidden_nodes) ==
  LET nbrs == CsgNeighbors(self, nodes, forbidden_nodes)
  IN IF nbrs = <<>> THEN <<>>
     ELSE <<Frame("enumerate_csg_rec", {}, nodes, forbidden_nodes, nbrs)>>

\* A call of enumerate_cmp_rec(left, right, forbidden_nodes).
CallEnumerateCmpRec(self, left, right, forbidden_nodes) ==
  LET nbrs == neighbors(self.query_graph, right, forbidden_nodes)
  IN IF nbrs = <<>> THEN <<>>
     ELSE <<Frame("enumerate_cmp_rec", left, right, forbidden_nodes, nbrs)>>

Top == stack[Len(stack)]

\* The stack with its top frame replaced by f, and the called frames on it.
Continue(f, called) == SubSeq(stack, 1, Len(stack) - 1) \o <<f>> \o called

\* The top frame after one more iteration of its current loop.
Advance(f) ==
  IF f.i = Len(f.nbrs) /\ f.phase = "emit" /\ f.fn # "emit_csg"
  THEN [f EXCEPT !.i = 1, !.phase = "rec"]
  ELSE [f EXCEPT !.i = @ + 1]

Running == pc = "solve" /\ stack # <<>> /\ ~dphyp.panic

Init ==
  /\ input \in InputPlans
  /\ pc = "extract"
  /\ dphyp = NewDPhpy
  /\ join_conditions = <<>>
  /\ s_expr = input
  /\ optimized = FALSE
  /\ stack = <<>>
  /\ csg_calls = <<>>
  /\ cmp_calls = <<>>
  /\ nc_pc = "idle"
  /\ nc_before = NewDPhpy
  /\ nc_self = NewDPhpy
  /\ nc_s_expr = Leaf("DummyTableScan")
  /\ left_res = NotSpawned
  /\ right_res = NotSpawned
  /\ nc_ret = <<>>

\* optimize, lines 267-275: extraction and the two early returns.
OptimizeExtract ==
  /\ pc = "extract"
  /\ \E x \in {Extract(dphyp, input)} :
        /\ dphyp' = x.res.self
        /\ s_expr' = x.res.expr
        /\ join_conditions' = x.res.jc
        /\ optimized' = (x.done /\ x.res.optimized /\ ~x.res.self.panic)
        /\ pc' = IF x.done THEN "returned" ELSE "edges"
  /\ UNCHANGED <<input, stack, csg_calls, cmp_calls>>
  /\ UNCHANGED threads

\* optimize, lines 278-320: the edges of the query graph.
OptimizeEdges ==
  /\ pc = "edges"
  /\ \E g \in {BuildEdges(dphyp, join_conditions, 1)} :
        /\ dphyp' = g.self
        /\ pc' = IF g.ok THEN "solve_init" ELSE "returned"
  /\ UNCHANGED <<input, join_conditions, s_expr, optimized, stack, csg_calls, cmp_calls>>
  /\ UNCHANGED threads

\* solve, lines 341-355: the plans of the single relations.
SolveInit ==
  /\ pc = "solve_init"
  /\ dphyp' = [dphyp EXCEPT !.dp_table = InitialDpTable(dphyp.join_relations)]
  /\ stack' = <<[Frame("solve", {}, {}, {}, <<>>) EXCEPT !.i = Len(dphyp.join_relations) - 1]>>
  /\ pc' = "solve"
  /\ UNCHANGED <<input, join_conditions, s_expr, optimized, csg_calls, cmp_calls>>
  /\ UNCHANGED threads

\* solve, lines 358-364: emit the start relation as a subgraph.
SolveEmitCsg ==
  /\ Running /\ Top.fn = "solve" /\ Top.i >= 0 /\ Top.phase = "emit"
  /\ stack' = Continue([Top EXCEPT !.phase = "rec"], CallEmitCsg(dphyp, {Top.i}))
  /\ csg_calls' = Append(csg_calls, {Top.i})
  /\ UNCHANGED <<input, pc, dphyp, join_conditions, s_expr, optimized, cmp_calls>>
  /\ UNCHANGED threads

\* solve, lines 366-372: enlarge the subgraph, nothing below idx.
SolveEnumerateCsgRec ==
  /\ Running /\ Top.fn = "solve" /\ Top.i >= 0 /\ Top.phase = "rec"
  /\ stack' = Continue([Top EXCEPT !.phase = "emit", !.i = @ - 1],
                       CallEnumerateCsgRec(dphyp, {Top.i}, 0..(Top.i - 1)))
  /\ UNCHANGED <<input, pc, dphyp, join_conditions, s_expr, optimized, csg_calls, cmp_calls>>
  /\ UNCHANGED threads

\* emit_csg, lines 392-406: one neighbor of nodes.
EmitCsgStep ==
  /\ Running /\ Top.fn = "emit_csg" /\ Top.i <= Len(Top.nbrs)
  /\ LET neighbor_relations == {Top.nbrs[Top.i]}
         conds == is_connected(dphyp.query_graph, Top.nodes, neighbor_relations)
     IN /\ dphyp' = EmitCsgNeighbor(dphyp, Top.nodes, neighbor_relations)
        /\ cmp_calls' = IF conds # <<>>
                        THEN Append(cmp_calls, <<Top.nodes, neighbor_relations>>)
                        ELSE cmp_calls
        /\ stack' = Continue(Advance(Top),
                             IF dphyp'.panic THEN <<>>
                             ELSE CallEnumerateCmpRec(dphyp', Top.nodes, neighbor_relations,
                                                      Top.forb))
  /\ UNCHANGED <<input, pc, join_conditions, s_expr, optimized, csg_calls>>
  /\ UNCHANGED threads

\* enumerate_cmp_rec, lines 534-549: one enlarged complement.
CmpEmitStep ==
  /\ Running /\ Top.fn = "enumerate_cmp_rec" /\ Top.phase = "emit"
  /\ LET merged_relation_set == union(Top.nodes, {Top.nbrs[Top.i]})
         conds == is_connected(dphyp.query_graph, Top.left, merged_relation_set)
         emit == /\ Cardinality(merged_relation_set) > Cardinality(Top.nodes)
                 /\ merged_relation_set \in DOMAIN dphyp.dp_table
                 /\ conds # <<>>
     IN /\ dphyp' = IF emit THEN emit_csg_cmp(dphyp, Top.left, merged_relation_set, conds)
                    ELSE dphyp
        /\ cmp_calls' = IF emit THEN Append(cmp_calls, <<Top.left, merged_relation_set>>)
                        ELSE cmp_calls
  /\ stack' = Continue(Advance(Top), <<>>)
  /\ UNCHANGED <<input, pc, join_conditions, s_expr, optimized, csg_calls>>
  /\ UNCHANGED threads

\* CmpRecStep that hands on the forbidden set of the caller as it is.
CmpRecStep_same_forbidden ==
  /\ Running /\ Top.fn = "enumerate_cmp_rec" /\ Top.phase = "rec"
  /\ Top.i <= Len(Top.nbrs)
  /\ stack' = Continue(Advance(Top),
                       CallEnumerateCmpRec(dphyp, Top.left,
                                           union(Top.nodes, {Top.nbrs[Top.i]}), Top.forb))
  /\ UNCHANGED <<input, pc, dphyp, join_conditions, s_expr, optimized, csg_calls, cmp_calls>>
  /\ UNCHANGED threads

\* enumerate_cmp_rec, lines 551-557: recurse into one enlarged complement.
CmpRecStep ==
  /\ Running /\ Top.fn = "enumerate_cmp_rec" /\ Top.phase = "rec"
  /\ Top.i <= Len(Top.nbrs)
  /\ LET new_forbidden_nodes == Top.nforb \cup {Top.nbrs[Top.i]}
     IN stack' = Continue([Advance(Top) EXCEPT !.nforb = new_forbidden_nodes],
                          CallEnumerateCmpRec(dphyp, Top.left,
                                              union(Top.nodes, {Top.nbrs[Top.i]}),
                                              new_forbidden_nodes))
  /\ UNCHANGED <<input, pc, dphyp, join_conditions, s_expr, optimized, csg_calls, cmp_calls>>
  /\ UNCHANGED threads

\* CsgEmitStep that recurses into the enlarged subgraph right after emitting
\* it, before the remaining neighbors are emitted.
CsgEmitStep_recurse_at_once ==
  /\ Running /\ Top.fn = "enumerate_csg_rec" /\ Top.phase = "emit"
  /\ LET merged_relation_set == union(Top.nodes, {Top.nbrs[Top.i]})
         emit == /\ merged_relation_set \in DOMAIN dphyp.dp_table
                 /\ Cardinality(merged_relation_set) > Cardinality(Top.nodes)
     IN /\ stack' = Continue(Advance(Top),
                             CallEnumerateCsgRec(dphyp, merged_relation_set,
                                                 Top.forb \cup {Top.nbrs[Top.i]})
                               \o (IF emit THEN CallEmitCsg(dphyp, merged_relation_set)
                                   ELSE <<>>))
        /\ csg_calls' = IF emit THEN Append(csg_calls, merged_relation_set) ELSE csg_calls
  /\ UNCHANGED <<input, pc, dphyp, join_conditions, s_expr, optimized, cmp_calls>>
  /\ UNCHANGED threads

\* enumerate_csg_rec, lines 430-442: one enlarged subgraph.
CsgEmitStep ==
  /\ Running /\ Top.fn = "enumerate_csg_rec" /\ Top.phase = "emit"
  /\ LET merged_relation_set == union(Top.nodes, {Top.nbrs[Top.i]})
         emit == /\ merged_relation_set \in DOMAIN dphyp.dp_table
                 /\ Cardinality(merged_relation_set) > Cardinality(Top.nodes)
     IN /\ stack' = Continue(Advance(Top),
                             IF emit THEN CallEmitCsg(dphyp, merged_relation_set) ELSE <<>>)
        /\ csg_calls' = IF emit THEN Append(csg_calls, merged_relation_set) ELSE csg_calls
  /\ UNCHANGED <<input, pc, dphyp, join_conditions, s_expr, optimized, cmp_calls>>
  /\ UNCHANGED threads

\* enumerate_csg_rec, lines 444-453: recurse into one enlarged subgraph.
CsgRecStep ==
  /\ Running /\ Top.fn = "enumerate_csg_rec" /\ Top.phase = "rec"
  /\ Top.i <= Len(Top.nbrs)
  /\ LET new_forbidden_nodes ==
           CsgNewForbidden(dphyp, Top.forb, Top.nforb, Top.nbrs[Top.i])
     IN stack' = Continue([Advance(Top) EXCEPT !.nforb = new_forbidden_nodes],
                          CallEnumerateCsgRec(dphyp, union(Top.nodes, {Top.nbrs[Top.i]}),
                                              new_forbidden_nodes))
  /\ UNCHANGED <<input, pc, dphyp, join_conditions, s_expr, optimized, csg_calls, cmp_calls>>
  /\ UNCHANGED threads

\* The innermost call has finished its loops: it returns Ok(true).
Return ==
  /\ Running
  /\ IF Top.fn = "solve" THEN Top.i < 0 ELSE Top.i > Len(Top.nbrs)
  /\ stack' = SubSeq(stack, 1, Len(stack) - 1)
  /\ UNCHANGED <<input, pc, dphyp, join_conditions, s_expr, optimized, csg_calls, cmp_calls>>
  /\ UNCHANGED threads

\* optimize, lines 321-335: solve has returned; look up the full set.
OptimizeFinish ==
  /\ pc = "solve" /\ stack = <<>> /\ ~dphyp.panic
  /\ \E r \in {Finish(dphyp, s_expr)} :
        /\ s_expr' = r.expr
        /\ optimized' = r.optimized
  /\ pc' = "returned"
  /\ UNCHANGED <<input, dphyp, join_conditions, stack, csg_calls, cmp_calls>>
  /\ UNCHANGED threads

Next ==
  \/ OptimizeExtract
  \/ OptimizeEdges
  \/ SolveInit
  \/ SolveEmitCsg
  \/ SolveEnumerateCsgRec
  \/ EmitCsgStep
  \/ CmpEmitStep
  \/ CmpRecStep
  \/ CsgEmitStep
  \/ CsgRecStep
  \/ Return
  \/ OptimizeFinish

Spec == Init /\ [][Next]_vars

(* ------------------ optimize at the relation threshold ----------------- *)
\* Query graphs over n relations: a chain, a star around relation 0, a
\* cycle, and a chain with every relation joined to relation 0 as well.
Chain(n) == {<<i, i + 1>> : i \in 0..(n - 2)}

Star(n) == {<<0, i>> : i \in 1..(n - 1)}

ShapedGraphs(n) == {Chain(n), Star(n), Chain(n) \cup {<<0, n - 1>>}, Chain(n) \cup Star(n)}

\* Joins of scans of one row each: every query graph over two to MaxRel
\* relations, and the shaped graphs over RELATION_THRESHOLD relations and
\* one more.
ThresholdPlans ==
  UNION { { LeftDeep(ScanSlots(n, [i \in 0..(n - 1) |-> 1]), E, NoExtra, n - 1) :
              E \in Graphs(n) } : n \in 2..MaxRel }
  \cup
  UNION { { LeftDeep(ScanSlots(n, [i \in 0..(n - 1) |-> 1]), E, NoExtra, n - 1) :
              E \in ShapedGraphs(n) } : n \in RELATION_THRESHOLD..(RELATION_THRESHOLD + 1) }

InitThreshold ==
  /\ input \in ThresholdPlans
  /\ pc = "extract"
  /\ dphyp = NewDPhpy
  /\ join_conditions = <<>>
  /\ s_expr = input
  /\ optimized = FALSE
  /\ stack = <<>>
  /\ csg_calls = <<>>
  /\ cmp_calls = <<>>
  /\ nc_pc = "idle"
  /\ nc_before = NewDPhpy
  /\ nc_self = NewDPhpy
  /\ nc_s_expr = Leaf("DummyTableScan")
  /\ left_res = NotSpawned
  /\ right_res = NotSpawned
  /\ nc_ret = <<>>

\* optimize on plans below, at and above the relation threshold.
SpecThreshold == InitThreshold /\ [][Next]_vars

(* ------------- optimize with a condition over three tables ------------- *)
\* An equi-join condition whose left side uses the tables i and j and whose
\* right side uses the table k.
HyperCond(i, j, k) == <<Expr(<<i, j, k>>, {i, j}), Expr(<<k, i, j>>, {k})>>

\* Left-deep joins of three to MaxRel scans over every graph, with one
\* condition between the tables 0 and 1 and the last table added to the
\* conditions of the topmost join.
HyperPlans ==
  UNION { UNION { { LeftDeep(ScanSlots(n, cards), E,
                             [front |-> f, conds |-> <<HyperCond(0, 1, n - 1)>>], n - 1)
                    : E \in Graphs(n), f \in BOOLEAN }
                  : cards \in [0..(n - 1) -> CardVals] } : n \in 3..MaxRel }

InitHyper ==
  /\ input \in HyperPlans
  /\ pc = "extract"
  /\ dphyp = NewDPhpy
  /\ join_conditions = <<>>
  /\ s_expr = input
  /\ optimized = FALSE
  /\ stack = <<>>
  /\ csg_calls = <<>>
  /\ cmp_calls = <<>>
  /\ nc_pc = "idle"
  /\ nc_before = NewDPhpy
  /\ nc_self = NewDPhpy
  /\ nc_s_expr = Leaf("DummyTableScan")
  /\ left_res = NotSpawned
  /\ right_res = NotSpawned
  /\ nc_ret = <<>>

\* optimize on plans with a condition that has two tables on one side.
SpecHyper == InitHyper /\ [][Next]_vars

(* ------------------- new_children with its two threads ----------------- *)
\* The plans a worker is given: a scan, a join of two scans, and a plan
\* with an exchange, on which the worker's optimize panics.
WorkerPlans(t) ==
  { Scan(t, 1),
    JoinOn(<<Cond(t, t + 2)>>, Scan(t, 1), Scan(t + 2, 2)),
    Leaf("Exchange") }

\* The plans new_children is called with: a union or a left join.
OpaquePlans ==
  UNION { { UnionAll(l, r), Join("Left", <<Cond(2, 3)>>, <<>>, l, r) } :
          <<l, r>> \in WorkerPlans(2) \X WorkerPlans(3) }

\* The instance at the call: nothing registered yet, or one scan.
ParentStates ==
  { NewDPhpy,
    [NewDPhpy EXCEPT !.join_relations = <<Scan(0, 1)>>,
                     !.table_index_map = MapInsert(EmptyMap, 0, 0)] }

\* What a worker thread ends with: r is what its optimize computed, err
\* says that a collaborator of optimize returned an error instead.
WorkerOutcome(r, err) ==
  IF r.self.panic THEN JoinHandle("panicked", <<>>)
  ELSE JoinHandle("finished", [res |-> r, err |-> err])

\* Failed that sees a thread that cannot be joined and no other failure.
Failed_only_panic(handle) == handle.status = "panicked"

\* The two "?" behind a join: the thread cannot be joined, or the result
\* of its optimize is an error.
Failed(handle) == handle.status = "panicked" \/ handle.value.err

\* The error new_children returns.
NcError == [err |-> TRUE, expr |-> <<>>, optimized |-> FALSE]

InitNewChildren ==
  /\ nc_before \in ParentStates
  /\ nc_self = nc_before
  /\ nc_s_expr \in OpaquePlans
  /\ nc_pc = "spawn_left"
  /\ left_res = NotSpawned
  /\ right_res = NotSpawned
  /\ nc_ret = <<>>
  /\ input = nc_s_expr
  /\ pc = "new_children"
  /\ dphyp = nc_before
  /\ join_conditions = <<>>
  /\ s_expr = nc_s_expr
  /\ optimized = FALSE
  /\ stack = <<>>
  /\ csg_calls = <<>>
  /\ cmp_calls = <<>>

optimizer == <<input, pc, dphyp, join_conditions, s_expr, optimized, stack, csg_calls, cmp_calls>>

\* Thread::spawn of the left worker.
SpawnLeft ==
  /\ nc_pc = "spawn_left"
  /\ left_res' = JoinHandle("running", <<>>)
  /\ nc_pc' = "spawn_right"
  /\ UNCHANGED <<nc_before, nc_self, nc_s_expr, right_res, nc_ret>>
  /\ UNCHANGED optimizer

\* Thread::spawn of the right worker.
SpawnRight ==
  /\ nc_pc = "spawn_right"
  /\ right_res' = JoinHandle("running", <<>>)
  /\ nc_pc' = "join_left"
  /\ UNCHANGED <<nc_before, nc_self, nc_s_expr, left_res, nc_ret>>
  /\ UNCHANGED optimizer

\* The left worker runs optimize on the left child with an instance of
\* its own, and ends.
WorkerLeft ==
  /\ left_res.status = "running"
  /\ \E r \in {optimize(NewDPhpy, nc_s_expr.ch[1])} : \E err \in BOOLEAN :
       left_res' = WorkerOutcome(r, err)
  /\ UNCHANGED <<nc_pc, nc_before, nc_self, nc_s_expr, right_res, nc_ret>>
  /\ UNCHANGED optimizer

\* The right worker, on the right child.
WorkerRight ==
  /\ right_res.status = "running"
  /\ \E r \in {optimize(NewDPhpy, nc_s_expr.ch[2])} : \E err \in BOOLEAN :
       right_res' = WorkerOutcome(r, err)
  /\ UNCHANGED <<nc_pc, nc_before, nc_self, nc_s_expr, left_res, nc_ret>>
  /\ UNCHANGED optimizer

\* left_res.join()? and left_res.0?: wait for the left worker; its failure
\* is returned at once.
JoinLeft ==
  /\ nc_pc = "join_left"
  /\ left_res.status \in {"finished", "panicked"}
  /\ IF Failed(left_res)
     THEN nc_pc' = "returned" /\ nc_ret' = NcError
     ELSE nc_pc' = "join_right" /\ nc_ret' = nc_ret
  /\ UNCHANGED <<nc_before, nc_self, nc_s_expr, left_res, right_res>>
  /\ UNCHANGED optimizer

\* right_res.join()? and right_res.0?
JoinRight ==
  /\ nc_pc = "join_right"
  /\ right_res.status \in {"finished", "panicked"}
  /\ IF Failed(right_res)
     THEN nc_pc' = "returned" /\ nc_ret' = NcError
     ELSE nc_pc' = "merge" /\ nc_ret' = nc_ret
  /\ UNCHANGED <<nc_before, nc_self, nc_s_expr, left_res, right_res>>
  /\ UNCHANGED optimizer

\* The two merge loops and the return of the plan with the new children.
Merge ==
  /\ nc_pc = "merge"
  /\ \E m \in {MergeChildren(nc_self, nc_s_expr, left_res.value.res, right_res.value.res)} :
       /\ nc_self' = m.self
       /\ nc_ret' = [err |-> FALSE, expr |-> m.expr, optimized |-> m.optimized]
  /\ nc_pc' = "returned"
  /\ UNCHANGED <<nc_before, nc_s_expr, left_res, right_res>>
  /\ UNCHANGED optimizer

\* The caller, get_base_relations, registers the returned plan as the next
\* relation; an error is passed on by "?" and nothing is registered.
Register ==
  /\ nc_pc = "returned"
  /\ ~nc_ret.err
  /\ nc_self' = PushRelation(nc_self, nc_ret.expr)
  /\ nc_pc' = "registered"
  /\ UNCHANGED <<nc_before, nc_s_expr, left_res, right_res, nc_ret>>
  /\ UNCHANGED optimizer

NextNewChildren ==
  \/ SpawnLeft
  \/ SpawnRight
  \/ WorkerLeft
  \/ WorkerRight
  \/ JoinLeft
  \/ JoinRight
  \/ Merge
  \/ Register

SpecNewChildren == InitNewChildren /\ [][NextNewChildren]_vars

(* ------------------------- reference definitions ----------------------- *)
\* solve has returned to optimize (which may have returned since).
SolveDone ==
  \/ pc = "solve" /\ stack = <<>>
  \/ pc = "returned" /\ dphyp.dp_table # EmptyMap

NumRelations == Len(dphyp.join_relations)

\* The ways to split S into a part with the lowest relation of S and a rest.
Splits(S) ==
  {<<L, S \ L>> : L \in {X \in SUBSET S : Min(S) \in X /\ X # S}}

RECURSIVE TreeCosts(_, _, _)
\* The costs of all bushy join trees over the relations S in which every
\* join has at least one condition between its two inputs, a join costing
\* its estimated rows plus the costs of its inputs and a relation nothing.
TreeCosts(qg, cards, S) ==
  IF Cardinality(S) = 1 THEN {0}
  ELSE UNION {
         {JoinCardinality(cards, p[1], p[2], is_connected(qg, p[1], p[2])) + a + b :
            a \in TreeCosts(qg, cards, p[1]), b \in TreeCosts(qg, cards, p[2])}
         : p \in {q \in Splits(S) : is_connected(qg, q[1], q[2]) # <<>>} }

\* The relation sets that have such a tree: the connected subgraphs.
IsCsg(qg, cards, S) == TreeCosts(qg, cards, S) # {}

MinOf(C) == CHOOSE c \in C : \A d \in C : c <= d

\* The costs of the trees over all relations of the instance.
FullTreeCosts ==
  TreeCosts(dphyp.query_graph, RelationCards(dphyp.join_relations), AllRelations(dphyp))

(* -------------------------------- claims ------------------------------- *)
\* C1: once solve has returned on a connected query graph of at least two
\* relations, the cost of the dp_table entry of the full relation set is the
\* least cost of all bushy join trees without cross products.
C1_OptimalCost ==
  (SolveDone /\ NumRelations >= 2 /\ FullTreeCosts # {})
    => /\ AllRelations(dphyp) \in DOMAIN dphyp.dp_table
       /\ dphyp.dp_table[AllRelations(dphyp)].cost = MinOf(FullTreeCosts)

\* C1 witness: solve has returned on a graph of four relations whose trees
\* differ in cost, and the entry of the full set has the least cost.
C1_Witness ==
  /\ SolveDone /\ NumRelations = 4
  /\ Cardinality(FullTreeCosts) > 2
  /\ dphyp.dp_table[AllRelations(dphyp)].cost = MinOf(FullTreeCosts)

\* optimize has returned (a panic is no return).
Returned == pc = "returned" /\ ~dphyp.panic

\* The flag get_base_relations hands to optimize for the input plan.
ExtractionOptimized ==
  get_base_relations(NewDPhpy, <<>>, input, FALSE, <<>>, FALSE).optimized

RECURSIVE Component(_, _)
\* The relations reachable from the set S over the edges of the query graph.
Component(qg, S) ==
  LET T == S \cup UNION {qg[k].r : k \in {j \in 1..Len(qg) : qg[j].l \subseteq S}}
  IN IF T = S THEN S ELSE Component(qg, T)

\* The query graph connects all relations of the instance.
GraphConnected == Component(dphyp.query_graph, {0}) = AllRelations(dphyp)

\* C3: with at least two relations and at least one collected equi-join
\* condition, if the query graph does not connect all relations then
\* dp_table never gets an entry for the full relation set and optimize
\* returns optimized = false.
C3_DisconnectedFails ==
  (pc \in {"solve", "returned"} /\ ~dphyp.panic /\ NumRelations >= 2
     /\ join_conditions # <<>> /\ ~GraphConnected)
    => /\ AllRelations(dphyp) \notin DOMAIN dphyp.dp_table
       /\ pc = "returned" => ~optimized

\* C3 witness: solve has run over a graph with edges that leaves a relation
\* unconnected, and optimize has returned false.
C3_Witness ==
  /\ Returned /\ NumRelations >= 3 /\ dphyp.query_graph # <<>>
  /\ ~GraphConnected /\ cmp_calls # <<>> /\ ~optimized
  /\ AllRelations(dphyp) \notin DOMAIN dphyp.dp_table

\* C4: whenever optimize returns optimized = false, the returned plan is the
\* input plan, nested subqueries and opaque-join operands included.
C4_FailureReturnsInput ==
  (Returned /\ ~optimized) => s_expr = input

RECURSIVE LeafSeq(_)
\* The relation indices at the leaves of a join node's tree, left to right.
LeafSeq(node) ==
  IF node.children = <<>> THEN SortedSeq(node.leaves)
  ELSE LeafSeq(node.children[1]) \o LeafSeq(node.children[2])

RECURSIVE JoinCount(_)
\* The number of join nodes of a join node's tree.
JoinCount(node) ==
  IF node.children = <<>> THEN 0
  ELSE 1 + JoinCount(node.children[1]) + JoinCount(node.children[2])

\* A tree over n relations: n leaves, every relation once, n - 1 joins.
TreeShape(node, n) ==
  /\ Len(LeafSeq(node)) = n
  /\ Range(LeafSeq(node)) = 0..(n - 1)
  /\ JoinCount(node) = n - 1

\* C5: when optimize succeeds on a connected query graph of n relations, the
\* final join tree has exactly n leaves, holds every relation index exactly
\* once and has exactly n - 1 join nodes.
C5_FinalTreeShape ==
  (Returned /\ optimized /\ dphyp.dp_table # EmptyMap)
    => /\ AllRelations(dphyp) \in DOMAIN dphyp.dp_table
       /\ TreeShape(dphyp.dp_table[AllRelations(dphyp)], NumRelations)

\* C5 witness: optimize has succeeded over four relations with a bushy tree.
C5_Witness ==
  /\ Returned /\ optimized /\ NumRelations = 4
  /\ AllRelations(dphyp) \in DOMAIN dphyp.dp_table
  /\ TreeShape(dphyp.dp_table[AllRelations(dphyp)], 4)
  /\ \E k \in 1..2 :
       Cardinality(dphyp.dp_table[AllRelations(dphyp)].children[k].leaves) = 2

\* An entry of dp_table that is a join: its two children cover disjoint
\* halves of its key, it is an inner join, and it carries at least one
\* condition, all of them conditions of the query graph between its halves.
JoinedOnCondition(qg, S, e) ==
  /\ e.join_type = "Inner"
  /\ e.join_conditions # <<>>
  /\ e.leaves = S
  /\ e.children[1].leaves \cap e.children[2].leaves = {}
  /\ e.children[1].leaves \cup e.children[2].leaves = S
  /\ Range(e.join_conditions)
       \subseteq Range(is_connected(qg, e.children[1].leaves, e.children[2].leaves))

\* C6: dp_table never holds an entry built by joining two subsets that no
\* join condition connects: every entry with children is an inner join with
\* a non-empty list of conditions of the query graph.
C6_OnlyConnectedJoins ==
  \A S \in DOMAIN dphyp.dp_table :
    dphyp.dp_table[S].children # <<>>
      => JoinedOnCondition(dphyp.query_graph, S, dphyp.dp_table[S])

\* C6 witness: the graph lacks the edge between relations 0 and 2 and the
\* full set of three relations has a plan.
C6_Witness ==
  /\ SolveDone /\ NumRelations = 3
  /\ is_connected(dphyp.query_graph, {0}, {2}) = <<>>
  /\ {0, 1, 2} \in DOMAIN dphyp.dp_table
  /\ dphyp.dp_table[{0, 1, 2}].join_type = "Inner"

\* C7: during one solve, emit_csg_cmp is never called twice with the same
\* pair (left, right).
C7_NoPairTwice ==
  \A i, j \in 1..Len(cmp_calls) : cmp_calls[i] = cmp_calls[j] => i = j

\* The csg-cmp pairs of the query graph: two disjoint connected relation
\* sets with a condition between them, the first holding the lower relation.
CsgCmpPairs ==
  {p \in (SUBSET AllRelations(dphyp)) \X (SUBSET AllRelations(dphyp)) :
     /\ p[1] # {} /\ p[2] # {} /\ p[1] \cap p[2] = {}
     /\ Component([k \in 1..Len(dphyp.query_graph) |->
                     [l |-> dphyp.query_graph[k].l,
                      r |-> dphyp.query_graph[k].r \cap p[1]]],
                  {Min(p[1])}) = p[1]
     /\ Component([k \in 1..Len(dphyp.query_graph) |->
                     [l |-> dphyp.query_graph[k].l,
                      r |-> dphyp.query_graph[k].r \cap p[2]]],
                  {Min(p[2])}) = p[2]
     /\ is_connected(dphyp.query_graph, p[1], p[2]) # <<>>
     /\ Min(p[1]) < Min(p[2])}

\* C8: when solve has returned, every csg-cmp pair (S1, S2) with
\* min(S1) < min(S2) has been passed to emit_csg_cmp at least once.
C8_EveryPairEmitted ==
  (SolveDone /\ ~dphyp.panic) => CsgCmpPairs \subseteq Range(cmp_calls)

\* C8 witness: solve has returned on four relations, and a pair of two sets
\* of two relations each is among the pairs emitted.
C8_Witness ==
  /\ SolveDone /\ NumRelations = 4
  /\ \E p \in CsgCmpPairs :
       Cardinality(p[1]) = 2 /\ Cardinality(p[2]) = 2 /\ p \in Range(cmp_calls)

\* C9: an entry of dp_table is replaced only by a plan of strictly lower
\* cost: no step of solve removes an entry or raises its cost, and a step
\* that leaves the cost as it was leaves the entry as it was (of two plans
\* of the same cost the one found first stays).
C9_ReplacedOnlyByCheaper ==
  [][pc = "solve"
       => \A S \in DOMAIN dphyp.dp_table :
            /\ S \in DOMAIN dphyp'.dp_table
            /\ dphyp'.dp_table[S] # dphyp.dp_table[S]
                 => dphyp'.dp_table[S].cost < dphyp.dp_table[S].cost]_vars

\* The first pair of cmp_calls, from position i on, that makes up the set S.
RECURSIVE FirstPairFor(_, _)
FirstPairFor(S, i) ==
  IF cmp_calls[i][1] \cup cmp_calls[i][2] = S THEN cmp_calls[i]
  ELSE FirstPairFor(S, i + 1)

\* The entry of S is no longer the plan of the first pair emitted for S.
Replaced(S) ==
  /\ \E i \in 1..Len(cmp_calls) : cmp_calls[i][1] \cup cmp_calls[i][2] = S
  /\ {dphyp.dp_table[S].children[1].leaves, dphyp.dp_table[S].children[2].leaves}
       # {FirstPairFor(S, 1)[1], FirstPairFor(S, 1)[2]}

\* C9 witness: an entry has been replaced by a cheaper plan, and for another
\* set a second pair has been emitted without replacing the first plan.
C9_Witness ==
  /\ pc = "solve"
  /\ \E S \in DOMAIN dphyp.dp_table : Cardinality(S) > 1 /\ Replaced(S)
  /\ \E S \in DOMAIN dphyp.dp_table :
       /\ Cardinality(S) > 1 /\ ~Replaced(S)
       /\ Cardinality({i \in 1..Len(cmp_calls) :
                         cmp_calls[i][1] \cup cmp_calls[i][2] = S}) > 1

RECURSIVE SumCardinality(_)
\* The sum of the cardinalities of the join nodes of a node's tree.
SumCardinality(node) ==
  IF node.children = <<>> THEN 0
  ELSE node.cardinality[1] + SumCardinality(node.children[1])
         + SumCardinality(node.children[2])

\* A well-formed entry: a single relation costs 0, has no children and the
\* relation's estimated rows; a join costs its own cardinality plus the
\* costs of its children, which is the sum over the joins of its tree.
CostStructure(join_relations, S, e) ==
  IF Cardinality(S) = 1
  THEN /\ e.cost = 0
       /\ e.children = <<>>
       /\ e.cardinality = <<RelationCards(join_relations)[Min(S)]>>
  ELSE /\ Len(e.children) = 2
       /\ e.cardinality # <<>>
       /\ e.cost = e.cardinality[1] + e.children[1].cost + e.children[2].cost
       /\ e.cost = SumCardinality(e)

\* C10: in every reachable state every entry of dp_table has the cost that
\* is the sum of the cardinalities of the joins of its tree; the entries of
\* the single relations have cost 0, no children and the relation's
\* estimate, and are never overwritten.
C10_CostIsSumOfCardinalities ==
  /\ \A S \in DOMAIN dphyp.dp_table :
       CostStructure(dphyp.join_relations, S, dphyp.dp_table[S])
  /\ (pc = "solve" \/ SolveDone)
       => \A i \in AllRelations(dphyp) : {i} \in DOMAIN dphyp.dp_table

\* C10 witness: the entry of four relations costs the cardinalities of its
\* three joins, not all of them the same.
C10_Witness ==
  /\ SolveDone /\ {0, 1, 2, 3} \in DOMAIN dphyp.dp_table
  /\ dphyp.dp_table[{0, 1, 2, 3}].cost = SumCardinality(dphyp.dp_table[{0, 1, 2, 3}])
  /\ dphyp.dp_table[{0, 1, 2, 3}].cost > 3 * dphyp.dp_table[{0, 1, 2, 3}].cardinality[1]

\* C11: in every reachable state every entry of dp_table is stored under
\* its own leaf subset, and an entry with children has exactly two, whose
\* leaf subsets are disjoint and together make up the entry's leaf subset.
C11_ChildrenPartitionKey ==
  \A S \in DOMAIN dphyp.dp_table :
    /\ dphyp.dp_table[S].leaves = S
    /\ dphyp.dp_table[S].children # <<>>
         => /\ Len(dphyp.dp_table[S].children) = 2
            /\ dphyp.dp_table[S].children[1].leaves
                 \cap dphyp.dp_table[S].children[2].leaves = {}
            /\ dphyp.dp_table[S].children[1].leaves
                 \cup dphyp.dp_table[S].children[2].leaves = S

\* C11 witness: an entry of four relations whose children hold one and
\* three relations, next to an entry of three relations.
C11_Witness ==
  /\ pc = "solve"
  /\ {0, 1, 2, 3} \in DOMAIN dphyp.dp_table
  /\ {Cardinality(dphyp.dp_table[{0, 1, 2, 3}].children[k].leaves) : k \in 1..2} = {1, 3}
  /\ \E S \in DOMAIN dphyp.dp_table : Cardinality(S) = 3

\* A collected condition has a side that uses no table, so that the side
\* resolves to the empty set of relations.
HasEmptySide(jc) == \E k \in 1..Len(jc) : jc[k][1].t = {} \/ jc[k][2].t = {}

NcReturned == nc_pc \in {"returned", "registered"}

\* The worker behind the handle has completed and failed.
WorkerFailed(handle) ==
  handle.status = "panicked" \/ (handle.status = "finished" /\ handle.value.err)

\* The worker behind the handle has completed with a result.
WorkerSucceeded(handle) == handle.status = "finished" /\ ~handle.value.err

\* The tables a worker reports: the keys of the table_index_map it returns.
WorkerTables(handle) == DOMAIN handle.value.res.self.table_index_map

\* C13: when new_children has returned and a worker it waited for has
\* failed (its optimize returned an error, or its thread cannot be joined),
\* what it returned is an error, and whenever it returned an error the
\* table_index_map and the join_relations of the calling instance are as
\* they were at the call.
C13_FailureLeavesParentUntouched ==
  /\ (NcReturned /\ (WorkerFailed(left_res)
                      \/ (WorkerSucceeded(left_res) /\ WorkerFailed(right_res))))
       => nc_ret = NcError
  /\ (NcReturned /\ nc_ret = NcError)
       => /\ nc_self.table_index_map = nc_before.table_index_map
          /\ nc_self.join_relations = nc_before.join_relations

\* C13 witness: the left worker returned a result with tables, the right
\* worker's optimize returned an error, and new_children returned the
\* error to an instance that already had a relation.
C13_Witness ==
  /\ nc_pc = "returned" /\ nc_ret = NcError
  /\ WorkerSucceeded(left_res) /\ WorkerTables(left_res) # {}
  /\ right_res.status = "finished" /\ right_res.value.err
  /\ nc_before.join_relations # <<>>
  /\ nc_self = nc_before

\* C14: the table_index_map of the calling instance differs from the one
\* at the call only when both workers have completed with a result, and
\* once the caller has registered the returned plan, every table of either
\* worker maps to the index of that one relation, the last registered.
C14_MergeAfterBothSucceeded ==
  /\ nc_self.table_index_map # nc_before.table_index_map
       => WorkerSucceeded(left_res) /\ WorkerSucceeded(right_res)
  /\ nc_pc = "registered"
       => /\ Len(nc_self.join_relations) = Len(nc_before.join_relations) + 1
          /\ nc_self.join_relations[Len(nc_self.join_relations)] = nc_ret.expr
          /\ \A t \in WorkerTables(left_res) \cup WorkerTables(right_res) :
               /\ t \in DOMAIN nc_self.table_index_map
               /\ nc_self.table_index_map[t] = Len(nc_self.join_relations) - 1
          /\ \A t \in DOMAIN nc_before.table_index_map :
               nc_self.table_index_map[t] = nc_before.table_index_map[t]

\* C14 witness: both workers reported two tables each, and the caller
\* registered the returned plan as its second relation.
C14_Witness ==
  /\ nc_pc = "registered"
  /\ Cardinality(WorkerTables(left_res)) = 2
  /\ Cardinality(WorkerTables(right_res)) = 2
  /\ Len(nc_self.join_relations) = 2
  /\ \A t \in WorkerTables(left_res) \cup WorkerTables(right_res) :
       nc_self.table_index_map[t] = 1

\* C15: when new_children has returned, a result or an error, neither
\* worker thread is still running.
C15_ReturnsAfterBothWorkers ==
  NcReturned => left_res.status # "running" /\ right_res.status # "running"


(* ---------------------- claims on forbidden operators ------------------ *)
RECURSIVE SubExprs(_)
\* The nodes of a plan.
SubExprs(s) == {s} \cup UNION {SubExprs(s.ch[k]) : k \in 1..Len(s.ch)}

\* get_base_relations called on the node n alone, below a join or not.
VisitNode(n, join_child) == get_base_relations(NewDPhpy, <<>>, n, join_child, <<>>, FALSE)

\* The extraction of the input plan has run.
Extraction == pc # "extract"

\* C16: an exchange, pattern or runtime-filter-source node anywhere in the
\* traversed plan is fatal: get_base_relations returns no (plan,
\* optimizable) result for such a node, and the run that traverses it
\* returns none either.
C16_ForbiddenNodesAreFatal ==
  Extraction =>
    \A n \in SubExprs(input) :
      n.op \in {"Exchange", "Pattern", "RuntimeFilterSource"}
        => /\ dphyp.panic
           /\ \A join_child \in BOOLEAN : VisitNode(n, join_child).self.panic

\* C16 as amended: an exchange or runtime-filter-source node anywhere in
\* the traversed plan is fatal: get_base_relations returns no (plan,
\* optimizable) result for such a node, and the run that traverses it
\* returns none either (optimize stops, nothing is reported as optimized);
\* a pattern node is not fatal: get_base_relations returns it unchanged
\* with optimizable = true and registers nothing for it.
C16_ExchangeAndRuntimeFilterAreFatal ==
  Extraction =>
    \A n \in SubExprs(input) :
      /\ n.op \in {"Exchange", "RuntimeFilterSource"}
           => /\ dphyp.panic /\ pc = "returned" /\ ~optimized
              /\ dphyp.dp_table = EmptyMap
              /\ \A join_child \in BOOLEAN : VisitNode(n, join_child).self.panic
      /\ n.op = "Pattern"
           => \A join_child \in BOOLEAN :
                VisitNode(n, join_child) = Res(NewDPhpy, <<>>, n, TRUE)

\* C16 witness: an exchange below a sort below a left join, below joins of
\* scans, has stopped the run.
C16_Witness ==
  /\ pc = "returned" /\ dphyp.panic
  /\ input.op = "Join" /\ input.ch[1].op = "Join"
  /\ input.ch[2].op = "Join" /\ input.ch[2].jt = "Left"
  /\ input.ch[2].ch[2].op = "Sort" /\ input.ch[2].ch[2].ch[1].op = "Exchange"


(* ------------------------ claims on a single relation ------------------ *)
RECURSIVE PlanShape(_)
\* The shape of a plan: its operators, as a tree.
PlanShape(s) == [op |-> s.op, ch |-> [k \in 1..Len(s.ch) |-> PlanShape(s.ch[k])]]

\* The plan get_base_relations hands to optimize for the input plan.
ExtractionPlan == get_base_relations(NewDPhpy, <<>>, input, FALSE, <<>>, FALSE).expr

\* C17: when extraction registers exactly one relation, optimize returns
\* optimized = true with a plan of the same shape as the input, and neither
\* the query graph nor the DP table is populated.
C17_SingleRelationReturnsTrue ==
  (Returned /\ NumRelations = 1)
    => /\ optimized
       /\ PlanShape(s_expr) = PlanShape(input)
       /\ dphyp.query_graph = <<>>
       /\ dphyp.dp_table = EmptyMap
       /\ csg_calls = <<>>

\* C17 as amended: when extraction registers exactly one relation, optimize
\* returns the flag of the extraction (true when it succeeded, false when
\* a subquery below a join could not be optimized) with the plan the
\* extraction returned, which is the input itself when the input has no
\* join node; neither the query graph nor the DP table is populated.
C17_SingleRelationSkipsSolve ==
  (Returned /\ NumRelations = 1)
    => /\ optimized = ExtractionOptimized
       /\ s_expr = ExtractionPlan
       /\ (\A n \in SubExprs(input) : n.op # "Join") => s_expr = input
       /\ dphyp.query_graph = <<>>
       /\ dphyp.dp_table = EmptyMap
       /\ csg_calls = <<>>

\* C17 witness: optimize has returned true for a single relation, with
\* conditions collected, and the DP table is empty.
C17_Witness ==
  /\ Returned /\ NumRelations = 1 /\ optimized
  /\ join_conditions # <<>>
  /\ dphyp.dp_table = EmptyMap


(* ---------------------------- idempotence ------------------------------ *)
RECURSIVE LevelSets(_, _, _)
\* The subsets joined at each level of a join tree, the root at level d:
\* pairs <<level, tables of the subset>>; a relation is named by the
\* tables below it, which do not change when relations are re-indexed.
LevelSets(node, join_relations, d) ==
  IF node.children = <<>> THEN {}
  ELSE {<<d, UNION {PlanTables(join_relations[i + 1]) : i \in node.leaves}>>}
       \cup LevelSets(node.children[1], join_relations, d + 1)
       \cup LevelSets(node.children[2], join_relations, d + 1)

\* optimize has returned the plan rebuilt from a join tree of all relations.
Reordered ==
  /\ Returned /\ optimized /\ NumRelations >= 2
  /\ AllRelations(dphyp) \in DOMAIN dphyp.dp_table

\* A second run r of optimize has succeeded with a join tree of all its
\* relations.
RunReordered(r) ==
  /\ ~r.self.panic /\ r.optimized
  /\ AllRelations(r.self) \in DOMAIN r.self.dp_table

\* The root entry of a run.
RootEntry(self) == self.dp_table[AllRelations(self)]

\* C18: running the optimizer on the plan it rebuilt yields a root entry
\* with the same total cost and the same set of relation subsets joined at
\* each level.
C18_SameCostAndLevels ==
  Reordered =>
    \A r \in {optimize(NewDPhpy, s_expr)} :
      /\ RunReordered(r)
      /\ RootEntry(r.self).cost = RootEntry(dphyp).cost
      /\ LevelSets(RootEntry(r.self), r.self.join_relations, 0)
           = LevelSets(RootEntry(dphyp), dphyp.join_relations, 0)

\* C18 as amended: running the optimizer on the plan it rebuilt succeeds
\* again and yields a root entry with the same total cost, over the same
\* number of relations and the same tables; the subsets joined below the
\* root may differ between alternatives of equal cost.
C18_SameCost ==
  Reordered =>
    \A r \in {optimize(NewDPhpy, s_expr)} :
      /\ RunReordered(r)
      /\ RootEntry(r.self).cost = RootEntry(dphyp).cost
      /\ Len(r.self.join_relations) = NumRelations
      /\ DOMAIN r.self.table_index_map = DOMAIN dphyp.table_index_map

\* C18 witness: optimize has rebuilt the plan of four relations into a
\* plan that differs from its input, at a cost above the number of joins.
C18_Witness ==
  /\ Reordered /\ NumRelations = 4
  /\ s_expr # input
  /\ RootEntry(dphyp).cost > 3


(* -------------------- claims on the calls of the emits ----------------- *)
\* The last call recorded in a history of calls.
LastCall(calls) == calls[Len(calls)]

\* C19: at every call of emit_csg with more than one relation the subset
\* has an entry in dp_table, at every call of emit_csg_cmp left and right
\* have one, and no lookup in dp_table fails while solve runs.
C19_EmittedSetsHaveEntries ==
  [][ /\ csg_calls' # csg_calls /\ Cardinality(LastCall(csg_calls')) > 1
           => LastCall(csg_calls') \in DOMAIN dphyp.dp_table
      /\ cmp_calls' # cmp_calls
           => /\ LastCall(cmp_calls')[1] \in DOMAIN dphyp.dp_table
              /\ LastCall(cmp_calls')[2] \in DOMAIN dphyp.dp_table
      /\ pc = "solve" => ~dphyp'.panic ]_vars

\* C19 witness: emit_csg has been called with three relations, and the
\* last call of emit_csg_cmp joined two subsets of two relations each,
\* both with an entry.
C19_Witness ==
  /\ pc = "solve" /\ cmp_calls # <<>>
  /\ \E k \in 1..Len(csg_calls) : Cardinality(csg_calls[k]) = 3
  /\ Cardinality(LastCall(cmp_calls)[1]) = 2
  /\ Cardinality(LastCall(cmp_calls)[2]) = 2
  /\ LastCall(cmp_calls)[1] \in DOMAIN dphyp.dp_table
  /\ LastCall(cmp_calls)[2] \in DOMAIN dphyp.dp_table


\* The relation the outer loop of solve is at: the frame of solve counts
\* down, and has moved on by one while enumerate_csg_rec runs.
OuterIndex ==
  IF Len(stack) > 1 /\ stack[1].phase = "emit" THEN stack[1].i + 1 ELSE stack[1].i

\* C20: during one run of solve, emit_csg is called at most once for each
\* subset, and only in the iteration of the outer loop that is at the
\* lowest relation of the subset.
C20_EmitCsgOncePerSubset ==
  [][ csg_calls' # csg_calls
        => /\ \A k \in 1..Len(csg_calls) : csg_calls[k] # LastCall(csg_calls')
           /\ Min(LastCall(csg_calls')) = OuterIndex ]_vars


(* ------------------- claims on the sides of a candidate ---------------- *)
\* The estimated cardinality of the plan dp_table holds for the subset S.
EntryCardinality(S) == NodeCardinality(dphyp.dp_table[S], dphyp.join_relations)

\* The conditions handed to the last call of emit_csg_cmp, taken before
\* the step of that call.
LastConditions(calls) ==
  is_connected(dphyp.query_graph, LastCall(calls)[1], LastCall(calls)[2])

\* The candidate the last call of emit_csg_cmp builds, taken before the
\* step of that call.
LastCandidate(calls) ==
  Candidate(dphyp, LastCall(calls)[1], LastCall(calls)[2], LastConditions(calls))

\* C21: in emit_csg_cmp the operands of every join condition are swapped
\* if and only if the estimated cardinality of the right input is smaller
\* than that of the left input.
C21_SwappedIffRightSmaller ==
  [][ (cmp_calls' # cmp_calls /\ ~dphyp'.panic)
        => \A cand \in {LastCandidate(cmp_calls')} :
             (cand.join_conditions = SwapConditions(LastConditions(cmp_calls')))
               <=> (EntryCardinality(LastCall(cmp_calls')[2])
                      < EntryCardinality(LastCall(cmp_calls')[1])) ]_vars

\* C21 as amended: in emit_csg_cmp the operands of every join condition
\* are swapped if and only if the estimated cardinality of the left input
\* is smaller than that of the right input (the children are then stored
\* right first); otherwise the conditions are kept as they were handed
\* in.  An entry the call writes to dp_table is that candidate.
C21_SwappedIffLeftSmaller ==
  [][ (cmp_calls' # cmp_calls /\ ~dphyp'.panic)
        => \A cand \in {LastCandidate(cmp_calls')} :
             /\ LastConditions(cmp_calls') # <<>>
             /\ (cand.join_conditions = SwapConditions(LastConditions(cmp_calls')))
                  <=> (EntryCardinality(LastCall(cmp_calls')[1])
                         < EntryCardinality(LastCall(cmp_calls')[2]))
             /\ (cand.join_conditions = LastConditions(cmp_calls'))
                  <=> ~(EntryCardinality(LastCall(cmp_calls')[1])
                          < EntryCardinality(LastCall(cmp_calls')[2]))
             /\ dphyp'.dp_table # dphyp.dp_table
                  => dphyp'.dp_table[cand.leaves] = cand ]_vars

\* C21 witness: the last call of emit_csg_cmp had a left input of fewer
\* rows than its right input, over three relations or more, and the entry
\* of their union holds the conditions with their operands swapped.
C21_Witness ==
  /\ pc = "solve" /\ cmp_calls # <<>>
  /\ Cardinality(LastCall(cmp_calls)[1] \cup LastCall(cmp_calls)[2]) >= 3
  /\ EntryCardinality(LastCall(cmp_calls)[1]) < EntryCardinality(LastCall(cmp_calls)[2])
  /\ dphyp.dp_table[LastCall(cmp_calls)[1] \cup LastCall(cmp_calls)[2]].join_conditions
       = SwapConditions(LastConditions(cmp_calls))


(* ------------------- claims on conditions and filters ------------------ *)
\* A join that get_base_relations registers as one relation: its kind is
\* neither inner nor cross, or both its children are blocking operators.
OpaqueJoin(n) ==
  /\ n.op = "Join"
  /\ \/ n.jt \notin {"Inner", "Cross"}
     \/ n.ch[1].op \in BlockingOps /\ n.ch[2].op \in BlockingOps

\* The predicates of all filters of the Filter Set.
FilterSetPredicates(self) == UNION {Range(f.predicates) : f \in self.filters}

\* C22: a join registered as one opaque relation contributes nothing to
\* the enclosing problem: when the extraction has run, none of its
\* equi-join conditions is among the collected join conditions and none of
\* its non-equi predicates is in the Filter Set.
C22_OpaqueJoinContributesNothing ==
  (Extraction /\ ~dphyp.panic)
    => \A n \in SubExprs(input) :
         OpaqueJoin(n)
           => /\ Range(n.eq) \cap Range(join_conditions) = {}
              /\ Range(n.preds) \cap FilterSetPredicates(dphyp) = {}


RECURSIVE TopJoins(_, _)
\* The joins of the plan s whose children the outermost instance visits
\* itself: not below a subquery, a union or an opaque join.
TopJoins(s, is_subquery) ==
  IF is_subquery \/ s.ch = <<>> \/ s.op = "UnionAll" \/ OpaqueJoin(s) THEN {}
  ELSE IF s.op = "Join"
       THEN {s} \cup TopJoins(s.ch[1], s.ch[1].op \in BlockingOps)
                \cup TopJoins(s.ch[2], s.ch[2].op \in BlockingOps)
       ELSE TopJoins(s.ch[1], FALSE)

RECURSIVE ChainScan(_)
\* The scan at the end of a chain of filters and blocking operators:
\* <<scan>>, or <<>> when the chain ends in anything else.
ChainScan(c) ==
  IF c.op = "Scan" THEN <<c>>
  ELSE IF c.op \in BlockingOps \cup {"Filter"} THEN ChainScan(c.ch[1])
  ELSE <<>>

\* The chains of the input: the children of the joins the outermost
\* instance visits that start with a filter and end in a scan.
Chains ==
  {c \in UNION {Range(n.ch) : n \in TopJoins(input, FALSE)} :
     c.op = "Filter" /\ ChainScan(c) # <<>>}

\* The relation registered for the scan at the end of the chain c.
ChainRelation(c) ==
  dphyp.join_relations[dphyp.table_index_map[ChainScan(c)[1].table] + 1]

\* C23: for a scan reached below a join through a chain of filters and
\* blocking operators, the relation registered for it is the whole chain,
\* and no Filter of the chain is in the Filter Set when the extraction
\* has ended.
C23_WholeChainRegistered ==
  (Extraction /\ ~dphyp.panic)
    => \A c \in Chains :
         /\ ChainRelation(c) = c
         /\ FiltersOf(c) \cap dphyp.filters = {}


RECURSIVE PlacedAt(_, _)
\* The node of the returned plan out that stands where the plan in has its
\* first join: what replace_join_expr has put there.
PlacedAt(out, in) ==
  IF in.op = "Join" \/ in.ch = <<>> THEN out ELSE PlacedAt(out.ch[1], in.ch[1])

\* The predicates of the filter replace_join_expr has put above the
\* rebuilt join tree, none when it has put no filter.
PlacedPredicates ==
  LET f == PlacedAt(s_expr, input) IN IF f.op = "Filter" THEN Range(f.preds) ELSE {}

\* C24: when optimize has rebuilt the plan, every non-equi predicate of an
\* inner or cross join visited by the extraction is among the predicates
\* of the filter above the rebuilt join tree.
C24_ResidualsReattached ==
  Reordered
    => \A n \in TopJoins(input, FALSE) : Range(n.preds) \subseteq PlacedPredicates


(* ----------------------------- termination ----------------------------- *)
\* The number of calls of fn that have not returned.
FrameCount(fn) == Cardinality({k \in 1..Len(stack) : stack[k].fn = fn})

\* The innermost call is an enumerate_csg_rec or enumerate_cmp_rec whose
\* second loop makes its next recursive call in this step.
RecursiveCall ==
  /\ pc = "solve" /\ stack # <<>>
  /\ Top.fn \in {"enumerate_csg_rec", "enumerate_cmp_rec"}
  /\ Top.phase = "rec"
  /\ Len(stack') >= Len(stack)

\* The relations a call may still use: those its forbidden set leaves.
Free(f) == NumRelations - Cardinality(f.forb)

RECURSIVE CmpWork(_)
\* A bound on the steps of one call of enumerate_cmp_rec with free
\* relations left: its return, an emit and a recursive call for each of at
\* most free neighbors, and the steps of the calls made, each with at
\* least one more relation forbidden.
CmpWork(free) ==
  IF free <= 0 THEN 0 ELSE 1 + 2 * free + free * CmpWork(free - 1)

\* A bound on the steps of one call of emit_csg over n relations.
EmitWork(n) == 1 + n * (1 + CmpWork(n))

RECURSIVE CsgWork(_, _)
\* A bound on the steps of one call of enumerate_csg_rec.
CsgWork(free, n) ==
  IF free <= 0 THEN 0
  ELSE 1 + free * (1 + EmitWork(n)) + free * (1 + CsgWork(free - 1, n))

\* A bound on the steps of one iteration of the loop of solve.
IterationWork(n) == 2 + EmitWork(n) + CsgWork(n, n)

\* A bound on the steps of solve over n relations.
SolveWork(n) == 1 + n * IterationWork(n)

\* A bound on the steps left to the call of frame f and to the calls it
\* has still to make, over n relations.
FrameRank(f, n) ==
  CASE f.fn = "solve" ->
         1 + (IF f.i < 0 THEN 0
              ELSE IF f.phase = "emit" THEN (f.i + 1) * IterationWork(n)
              ELSE f.i * IterationWork(n) + 1 + CsgWork(n, n))
    [] f.fn = "emit_csg" ->
         1 + (Len(f.nbrs) + 1 - f.i) * (1 + CmpWork(Free(f)))
    [] f.fn = "enumerate_cmp_rec" ->
         IF f.phase = "emit"
         THEN 1 + (Len(f.nbrs) + 1 - f.i) + Len(f.nbrs) * (1 + CmpWork(Free(f) - 1))
         ELSE 1 + (Len(f.nbrs) + 1 - f.i) * (1 + CmpWork(Free(f) - 1))
    [] f.fn = "enumerate_csg_rec" ->
         IF f.phase = "emit"
         THEN 1 + (Len(f.nbrs) + 1 - f.i) * (1 + EmitWork(n))
                + Len(f.nbrs) * (1 + CsgWork(Free(f) - 1, n))
         ELSE 1 + (Len(f.nbrs) + 1 - f.i) * (1 + CsgWork(Free(f) - 1, n))

RECURSIVE StackRank(_, _)
StackRank(frames, n) ==
  IF frames = <<>> THEN 0 ELSE FrameRank(Head(frames), n) + StackRank(Tail(frames), n)

\* A bound on the steps optimize has left: zero when it has returned.
Rank ==
  CASE pc = "returned" -> 0
    [] pc = "solve" -> 1 + StackRank(stack, NumRelations)
    [] pc = "solve_init" -> 2 + SolveWork(NumRelations)
    [] pc = "edges" -> 3 + SolveWork(NumRelations)
    [] OTHER -> 4 + SolveWork(Cardinality(PlanTables(input)))

\* Some step is possible: the innermost call is at an iteration of one of
\* its loops or at its return, and solve, once all calls have returned,
\* returns to optimize.
CanStep ==
  \/ pc \in {"extract", "edges", "solve_init"}
  \/ /\ pc = "solve" /\ ~dphyp.panic
     /\ stack # <<>>
          => /\ Top.phase \in {"emit", "rec"}
             /\ Top.i >= 1 \/ Top.fn = "solve"
             /\ Top.phase = "emit" /\ Top.fn \in {"enumerate_csg_rec", "enumerate_cmp_rec"}
                  => Top.i <= Len(Top.nbrs)

AllNeighbors(f) == neighbors(dphyp.query_graph, f.nodes, f.forb)

\* The neighbors frame f of enumerate_csg_rec explores are in ascending
\* order; with fewer than 10 relations they are all the neighbors not
\* forbidden, with 10 relations or more the first |nodes| of them.
ExploredNeighbors(f) ==
  /\ \A a, b \in 1..Len(f.nbrs) : a < b => f.nbrs[a] < f.nbrs[b]
  /\ NumRelations < 10 => f.nbrs = AllNeighbors(f)
  /\ NumRelations >= 10
       => f.nbrs = SubSeq(AllNeighbors(f), 1,
                          IF Len(AllNeighbors(f)) < Cardinality(f.nodes)
                          THEN Len(AllNeighbors(f)) ELSE Cardinality(f.nodes))

\* C26: every call of enumerate_csg_rec explores the neighbors named by
\* ExploredNeighbors, and with fewer than 10 relations each of its
\* recursive calls is handed exactly the forbidden set of the caller plus
\* the one neighbor used.
C26_ThresholdCutsNeighbors ==
  /\ [](pc = "solve"
          => \A k \in 1..Len(stack) :
               stack[k].fn = "enumerate_csg_rec" => ExploredNeighbors(stack[k]))
  /\ [][ (RecursiveCall /\ Top.fn = "enumerate_csg_rec" /\ NumRelations < 10)
           => /\ stack'[Len(stack)].nforb = Top.forb \cup {Top.nbrs[Top.i]}
              /\ Len(stack') > Len(stack)
                   => /\ stack'[Len(stack')].forb = Top.forb \cup {Top.nbrs[Top.i]}
                      /\ stack'[Len(stack')].nodes = Top.nodes \cup {Top.nbrs[Top.i]} ]_vars

\* C26 witness: with 10 relations, a call of enumerate_csg_rec on two
\* nodes explores two neighbors and leaves others out.
C26_Witness ==
  /\ pc = "solve" /\ NumRelations = 10 /\ stack # <<>>
  /\ Top.fn = "enumerate_csg_rec"
  /\ Cardinality(Top.nodes) = 2 /\ Len(Top.nbrs) = 2
  /\ Len(AllNeighbors(Top)) > 2


(* --------------------- conditions of the final tree -------------------- *)
RECURSIVE JoinNodes(_)
\* The join nodes of a join node's tree.
JoinNodes(node) ==
  IF node.children = <<>> THEN {}
  ELSE {node} \cup JoinNodes(node.children[1]) \cup JoinNodes(node.children[2])

\* The relations the tables of an expression resolve to.
RelationSet(e) == {dphyp.table_index_map[t] : t \in e.t \cap DOMAIN dphyp.table_index_map}

\* A collected condition whose sides resolve to disjoint non-empty sets.
Separated(c) ==
  /\ (c[1].t \cup c[2].t) \subseteq DOMAIN dphyp.table_index_map
  /\ RelationSet(c[1]) # {} /\ RelationSet(c[2]) # {}
  /\ RelationSet(c[1]) \cap RelationSet(c[2]) = {}

\* The join nodes of the final tree that carry condition c, its operands
\* in either order.
Holders(c) ==
  {n \in JoinNodes(RootEntry(dphyp)) :
     c \in Range(n.join_conditions) \/ <<c[2], c[1]>> \in Range(n.join_conditions)}

\* C27: when optimize has succeeded with a join tree of all relations, every
\* collected condition whose sides resolve to disjoint non-empty relation
\* sets is carried by exactly one join node of that tree.
C27_EveryConditionInOneJoin ==
  Reordered
    => \A k \in 1..Len(join_conditions) :
         Separated(join_conditions[k]) => Cardinality(Holders(join_conditions[k])) = 1


(* --------------------------- embedded children ------------------------- *)
\* The entries of dp_table that were built from two children.
JoinEntries == {S \in DOMAIN dphyp.dp_table : dphyp.dp_table[S].children # <<>>}

\* Child k of the entry for S is a copy of an entry that has since been
\* replaced by a cheaper one.
StaleChild(S, k) ==
  LET child == dphyp.dp_table[S].children[k]
  IN \/ child.leaves \notin DOMAIN dphyp.dp_table
     \/ child.cost # dphyp.dp_table[child.leaves].cost

RECURSIVE LeafNodes(_)
\* The leaf nodes of a plan.
LeafNodes(s) ==
  IF s.ch = <<>> THEN {s} ELSE UNION {LeafNodes(s.ch[i]) : i \in 1..Len(s.ch)}

RECURSIVE FirstJoin(_)
\* The join replace_join_expr replaces: the first one met going down the
\* first children; <<>> when there is none.
FirstJoin(s) ==
  IF s.op = "Join" THEN <<s>>
  ELSE IF s.ch = <<>> THEN <<>> ELSE FirstJoin(s.ch[1])

\* C29: when optimize has succeeded and replaced the first join of the
\* input, every leaf below that join is a leaf of the returned plan.
C29_LeavesKept ==
  (Reordered /\ FirstJoin(input) # <<>>)
    => LeafNodes(FirstJoin(input)[1]) \subseteq LeafNodes(s_expr)


(* ----------------------- orientation of an entry ----------------------- *)
\* The entry for S has its larger child first, and every condition has its
\* first operand over the first child and its second over the second.
Oriented(S) ==
  LET e == dphyp.dp_table[S]
  IN /\ NodeCardinality(e.children[2], dphyp.join_relations)
          <= NodeCardinality(e.children[1], dphyp.join_relations)
     /\ \A k \in 1..Len(e.join_conditions) :
          /\ e.join_conditions[k][1].t \subseteq DOMAIN dphyp.table_index_map
          /\ e.join_conditions[k][2].t \subseteq DOMAIN dphyp.table_index_map
          /\ RelationSet(e.join_conditions[k][1]) \subseteq e.children[1].leaves
          /\ RelationSet(e.join_conditions[k][2]) \subseteq e.children[2].leaves

\* C30: in every entry of dp_table with children the second child's
\* estimated cardinality is at most the first child's, and every join
\* condition has its first operand over relations of the first child only
\* and its second operand over relations of the second child only.
C30_EntriesAreOriented == \A S \in JoinEntries : Oriented(S)

\* C30 witness: an entry built from a pair whose plans were swapped: its
\* first child is the right set of the pair, strictly larger than the
\* second, and it has a condition.
C30_Witness ==
  \E S \in JoinEntries :
    /\ dphyp.dp_table[S].join_conditions # <<>>
    /\ NodeCardinality(dphyp.dp_table[S].children[2], dphyp.join_relations)
         < NodeCardinality(dphyp.dp_table[S].children[1], dphyp.join_relations)
    /\ \E i \in 1..Len(cmp_calls) :
         /\ cmp_calls[i][1] = dphyp.dp_table[S].children[2].leaves
         /\ cmp_calls[i][2] = dphyp.dp_table[S].children[1].leaves

====
